---- MODULE Spec2Model ----
(***************************************************************************)
(* libmutex: the XLock reader-writer lock under the ReadBiased moderator   *)
(* (libmutex/src/xlock.rs).                                                *)
(*                                                                         *)
(* A thread owns at most one guard at a time.  Every critical section on   *)
(* the moderator's state mutex (from `sync.state.lock()` to the wait or to *)
(* the release of the mutex) is one action; what the code does after it    *)
(* has released the mutex (the notifications) is an action of its own.     *)
(* The condition variable's wait set is the set of threads whose pc is one *)
(* of the three wait positions.                                            *)
(*                                                                         *)
(* The WriteBiased and the ArrivalOrdered moderator, and the crate's other  *)
(* objects (the SpinLock of libmutex/src/spinlock.rs, the Completable      *)
(* cell, the UrwLock prototype of src/urw_lock.rs) have their own          *)
(* variables, actions and specifications; a call on one object leaves the  *)
(* others alone.                                                           *)
(***************************************************************************)
EXTENDS Integers, FiniteSets, Sequences

\* Bounds of the model.
NumThreads == 3
MaxVal == 1

Threads == 1..NumThreads
Values == 0..MaxVal

\* The three kinds of Duration the code distinguishes.
ZERO == "ZERO"
TIMED == "TIMED"
MAX == "MAX"
Durations == {ZERO, TIMED, MAX}
NoDur == "-"

VARIABLES
    readers,      \* ReadBiasedState.readers: the u32 as its residue nearest zero, so that
                  \* 0 - 1 (the u32 4294967295 of a release build) is -1
    writer,       \* ReadBiasedState.writer
    data,         \* XLock.data
    pc,           \* each thread's position in the code
    dur,          \* the duration argument of the call a thread is in
    rguard,       \* each thread's LockReadGuard: "none", "locked", "consumed" (locked == false)
    wguard,       \* each thread's LockWriteGuard, likewise
    ret,          \* what the thread's last call returned
    view,         \* the value the thread saw or stored through its guard
    snap,         \* the local `readers` of read_unlock
    passed,       \* history: the read guard was granted while a write() was blocked
    assertFailed  \* history: a debug_assert! of the moderator was false

vars == <<readers, writer, data, pc, dur, rguard, wguard, ret, view, snap, passed, assertFailed>>

\* The SpinLock and the threads that use it.
VARIABLES
    locked,       \* SpinLock.locked, the AtomicBool
    spc,          \* each thread's position: "idle", "try_lock", "lock" (in the loop of
                  \* lock()), "held" (it owns the SpinGuard)
    sret          \* what the thread's last try_lock returned: "none", "Some", "None"

spinVars == <<locked, spc, sret>>

\* The Completable cell and the threads that use it.  Its code is not among the
\* sources (only its disabled tests are): the cell follows the specification, 4.5.
VARIABLES
    cell,         \* the optional value behind the mutex: Empty or the value
    born,         \* how the cell was constructed: "default" (empty) or "new" (filled)
    cpc,          \* each thread's position: "idle", "complete", "complete_exclusive",
                  \* "get", "get_wait", "try_get", "try_get_wait", "moved"
    carg,         \* the value a thread passes to complete, or its producer would return
    cdur,         \* the duration of a thread's try_get
    cret,         \* what the thread's last call returned: "none", "true", "false", "unit"
                  \* (complete_exclusive), "Some" or "None" (the view of peek, get,
                  \* try_get, into_inner)
    cview,        \* the value in the view the thread was given
    wins,         \* history: how many calls of complete have returned true
    invokedBy     \* history: the threads whose producer has been invoked

compVars == <<cell, born, cpc, carg, cdur, cret, cview, wins, invokedBy>>

\* What the other two moderators add to the state of an XLock.  Their code is not among
\* the sources (only the facade that names them is): they follow the specification,
\* 4.2.2 and 4.2.3.
VARIABLES
    writers_waiting,  \* WriteBiased: the threads inside try_write, not yet answered
    queue             \* ArrivalOrdered: the waiters' tickets <<thread, kind>>, oldest first

moderatorVars == <<writers_waiting, queue>>

\* The UrwLock prototype (src/urw_lock.rs) and the threads that use it.
VARIABLES
    ustate,       \* InternalState behind UrwLock.state: [readers, writer]
    rwlock,       \* UrwLock.data, the std RwLock: [readers, writer], the guards it has
                  \* handed out
    prefers_writers,  \* the RwLock's priority policy, which std leaves to the platform:
                  \* whether read() also waits for a write() that is waiting
    upc           \* each thread's position: "idle", "read", "rd_wait", "rd_inner",
                  \* "R", "rd_release", "write", "wr_wait", "wr_inner", "W",
                  \* "wr_release", "dg_state"

urwVars == <<ustate, rwlock, prefers_writers, upc>>

\* What a call on one object leaves alone: the other objects, and for an XLock the
\* state its moderator does not have.
notXLock == <<moderatorVars, spinVars, compVars, urwVars>>
notWriteBiased == <<queue, spinVars, compVars, urwVars>>
notArrivalOrdered == <<writers_waiting, spinVars, compVars, urwVars>>
notSpinLock == <<vars, moderatorVars, compVars, urwVars>>
notCompletable == <<vars, moderatorVars, spinVars, urwVars>>
notUrwLock == <<vars, moderatorVars, spinVars, compVars>>

Empty == -1

WaitPcs == {"rd_wait", "wr_wait", "up_wait"}
NoView == -1

\* The threads parked on sync.cond.
Waiting == {u \in Threads : pc[u] \in WaitPcs}

\* A thread that leaves Condvar::wait re-locks the mutex and re-evaluates its loop.
Woken(p) ==
    CASE p = "rd_wait" -> "try_read"
      [] p = "wr_wait" -> "try_write"
      [] p = "up_wait" -> "try_upgrade"
      [] OTHER -> p

notify_all(p) == [u \in Threads |-> Woken(p[u])]

notify_one(p, u) == [p EXCEPT ![u] = Woken(p[u])]

\* utils::cond_wait_remedy with Deadline::remaining: a remaining time of zero
\* does not wait and reports a timeout, anything else parks the thread.
cond_wait_remedy(d) == IF d = ZERO THEN "timed_out" ELSE "parked"

\* ReadBiased::new and XLock::new
new(t0) ==
    /\ readers = 0
    /\ writer = FALSE
    /\ data = t0

\* SpinLock::new, and no thread has called it yet.
SpinLock_new ==
    /\ locked = FALSE
    /\ spc = [t \in Threads |-> "idle"]
    /\ sret = [t \in Threads |-> "none"]

\* Completable::default (c = Empty) or Completable::new(c), and no thread has called
\* it yet.
Completable_new(c) ==
    /\ cell = c
    /\ born = (IF c = Empty THEN "default" ELSE "new")
    /\ cpc = [t \in Threads |-> "idle"]
    /\ carg = [t \in Threads |-> Empty]
    /\ cdur = [t \in Threads |-> NoDur]
    /\ cret = [t \in Threads |-> "none"]
    /\ cview = [t \in Threads |-> Empty]
    /\ wins = 0
    /\ invokedBy = {}

\* UrwLock::new on a platform whose RwLock has policy p, and no thread has called it
\* yet.
UrwLock_new(p) ==
    /\ ustate = [readers |-> 0, writer |-> FALSE]
    /\ rwlock = [readers |-> 0, writer |-> FALSE]
    /\ prefers_writers = p
    /\ upc = [t \in Threads |-> "idle"]

\* The XLock as constructed, and no thread has called it yet.
XLock_Init ==
    /\ new(0)
    /\ pc = [t \in Threads |-> "idle"]
    /\ dur = [t \in Threads |-> NoDur]
    /\ rguard = [t \in Threads |-> "none"]
    /\ wguard = [t \in Threads |-> "none"]
    /\ ret = [t \in Threads |-> "none"]
    /\ view = [t \in Threads |-> NoView]
    /\ snap = [t \in Threads |-> 0]
    /\ passed = [t \in Threads |-> FALSE]
    /\ assertFailed = FALSE
    /\ writers_waiting = 0
    /\ queue = <<>>

\* Every object as constructed, the cell by Completable::default.
Init == XLock_Init /\ SpinLock_new /\ Completable_new(Empty) /\ UrwLock_new(FALSE)

------------------------------------------------------------------------------
\* XLock::read: self.try_read(Duration::MAX).unwrap()
\* XLock::try_read: enters S::try_read with the duration.
XLock_try_read(t, d) ==
    /\ pc[t] = "idle"
    /\ pc' = [pc EXCEPT ![t] = "try_read"]
    /\ dur' = [dur EXCEPT ![t] = d]
    /\ ret' = [ret EXCEPT ![t] = "none"]
    /\ UNCHANGED <<readers, writer, data, rguard, wguard, view, snap, passed, assertFailed>>
    /\ UNCHANGED notXLock

XLock_read(t) == XLock_try_read(t, MAX)

\* Mutant: the reader does not wait for the writer.
try_read_blocked_never == FALSE

\* Mutant: a reader also waits while a write() is parked (a write-preferring test).
try_read_blocked_by_parked_writer == writer \/ \E u \in Threads : pc[u] = "wr_wait"

\* `while state.writer`
try_read_blocked == writer

\* ReadBiased::try_read, one pass of the loop under the mutex, and the guard
\* XLock::try_read builds when it returns true.
try_read(t) ==
    /\ pc[t] = "try_read"
    /\ IF try_read_blocked
       THEN /\ IF cond_wait_remedy(dur[t]) = "timed_out"
               THEN /\ pc' = [pc EXCEPT ![t] = "idle"]
                    /\ ret' = [ret EXCEPT ![t] = "None"]
                    /\ dur' = [dur EXCEPT ![t] = NoDur]
               ELSE /\ pc' = [pc EXCEPT ![t] = "rd_wait"]
                    /\ UNCHANGED <<ret, dur>>
            /\ UNCHANGED <<readers, rguard, view, passed>>
       ELSE /\ readers' = readers + 1
            /\ pc' = [pc EXCEPT ![t] = "R"]
            /\ rguard' = [rguard EXCEPT ![t] = "locked"]
            /\ ret' = [ret EXCEPT ![t] = "Some"]
            /\ dur' = [dur EXCEPT ![t] = NoDur]
            /\ view' = [view EXCEPT ![t] = data]
            /\ passed' = [passed EXCEPT ![t] =
                            \E u \in Threads : pc[u] = "wr_wait" /\ dur[u] = MAX]
    /\ UNCHANGED <<writer, data, wguard, snap, assertFailed>>
    /\ UNCHANGED notXLock

\* `if timed_out { return false }` of try_read: the timed wait ran out.
try_read_timeout(t) ==
    /\ pc[t] = "rd_wait"
    /\ dur[t] = TIMED
    /\ pc' = [pc EXCEPT ![t] = "idle"]
    /\ ret' = [ret EXCEPT ![t] = "None"]
    /\ dur' = [dur EXCEPT ![t] = NoDur]
    /\ UNCHANGED <<readers, writer, data, rguard, wguard, view, snap, passed, assertFailed>>
    /\ UNCHANGED notXLock

\* The read_unlock body under the mutex: both debug_assert!s and `state.readers -= 1`.
read_unlock(t) ==
    /\ assertFailed' = (assertFailed \/ readers = 0 \/ writer)
    /\ readers' = readers - 1
    /\ snap' = [snap EXCEPT ![t] = readers']

\* LockReadGuard::drop: `if self.locked { self.lock.read_unlock() }`, up to drop(state).
drop_read(t) ==
    /\ pc[t] = "R"
    /\ IF rguard[t] = "locked"
       THEN /\ read_unlock(t)
            /\ pc' = [pc EXCEPT ![t] = "ru_notify"]
       ELSE /\ pc' = [pc EXCEPT ![t] = "idle"]
            /\ UNCHANGED <<readers, snap, assertFailed>>
    /\ rguard' = [rguard EXCEPT ![t] = "none"]
    /\ ret' = [ret EXCEPT ![t] = "none"]
    /\ view' = [view EXCEPT ![t] = NoView]
    /\ passed' = [passed EXCEPT ![t] = FALSE]
    /\ UNCHANGED <<writer, data, dur, wguard>>
    /\ UNCHANGED notXLock

\* Mutant: the last reader out notifies nobody.
read_unlock_wake_only_upgrader(n) ==
    IF n = 1 THEN "all" ELSE "nobody"

\* Mutant: read_unlock notifies only when the last reader has left.
read_unlock_wake_only_at_zero(n) ==
    IF n = 0 THEN "one" ELSE "nobody"

\* Mutant: `readers == 1` notifies one waiter, as `readers == 0` does.
read_unlock_wake_one_at_sole(n) ==
    IF n = 1 \/ n = 0 THEN "one" ELSE "nobody"

\* Whom read_unlock notifies, from its local `readers`.
read_unlock_wake(n) ==
    IF n = 1 THEN "all" ELSE IF n = 0 THEN "one" ELSE "nobody"

\* read_unlock after drop(state): notify_all, notify_one or nothing.
read_unlock_notify(t) ==
    /\ pc[t] = "ru_notify"
    /\ LET p == [pc EXCEPT ![t] = "idle"]
           w == read_unlock_wake(snap[t])
       IN  IF w = "all"
           THEN pc' = notify_all(p)
           ELSE IF w = "one" /\ Waiting # {}
                THEN \E u \in Waiting : pc' = notify_one(p, u)
                ELSE pc' = p
    /\ snap' = [snap EXCEPT ![t] = 0]
    /\ UNCHANGED <<readers, writer, data, dur, rguard, wguard, ret, view, passed, assertFailed>>
    /\ UNCHANGED notXLock

------------------------------------------------------------------------------
\* XLock::write: self.try_write(Duration::MAX).unwrap()
XLock_try_write(t, d) ==
    /\ pc[t] = "idle"
    /\ pc' = [pc EXCEPT ![t] = "try_write"]
    /\ dur' = [dur EXCEPT ![t] = d]
    /\ ret' = [ret EXCEPT ![t] = "none"]
    /\ UNCHANGED <<readers, writer, data, rguard, wguard, view, snap, passed, assertFailed>>
    /\ UNCHANGED notXLock

XLock_write(t) == XLock_try_write(t, MAX)

\* Mutant: the writer does not wait for the readers to leave.
try_write_blocked_ignoring_readers == writer

\* Mutant: the writer looks at the readers only, not at the writer flag.
try_write_blocked_ignoring_writer == readers # 0

\* Mutant: a writer goes in beside a sole reader (the upgrade's test in try_write).
try_write_blocked_unless_sole_reader == readers > 1 \/ writer

\* `while state.readers != 0 || state.writer`
try_write_blocked == readers # 0 \/ writer

\* ReadBiased::try_write, one pass of the loop under the mutex, and the guard
\* XLock::try_write builds when it returns true.
try_write(t) ==
    /\ pc[t] = "try_write"
    /\ IF try_write_blocked
       THEN /\ IF cond_wait_remedy(dur[t]) = "timed_out"
               THEN /\ pc' = [pc EXCEPT ![t] = "idle"]
                    /\ ret' = [ret EXCEPT ![t] = "None"]
                    /\ dur' = [dur EXCEPT ![t] = NoDur]
               ELSE /\ pc' = [pc EXCEPT ![t] = "wr_wait"]
                    /\ UNCHANGED <<ret, dur>>
            /\ UNCHANGED <<writer, wguard, view>>
       ELSE /\ writer' = TRUE
            /\ pc' = [pc EXCEPT ![t] = "W"]
            /\ wguard' = [wguard EXCEPT ![t] = "locked"]
            /\ ret' = [ret EXCEPT ![t] = "Some"]
            /\ dur' = [dur EXCEPT ![t] = NoDur]
            /\ view' = [view EXCEPT ![t] = data]
    /\ UNCHANGED <<readers, data, rguard, snap, passed, assertFailed>>
    /\ UNCHANGED notXLock

\* Mutant: the timed-out try_write leaves the writer flag set behind it.
try_write_timeout_claims(t) ==
    /\ pc[t] = "wr_wait"
    /\ dur[t] = TIMED
    /\ pc' = [pc EXCEPT ![t] = "idle"]
    /\ ret' = [ret EXCEPT ![t] = "None"]
    /\ dur' = [dur EXCEPT ![t] = NoDur]
    /\ writer' = TRUE
    /\ UNCHANGED <<readers, data, rguard, wguard, view, snap, passed, assertFailed>>
    /\ UNCHANGED notXLock

\* `if timed_out { return false; }` of try_write.
try_write_timeout(t) ==
    /\ pc[t] = "wr_wait"
    /\ dur[t] = TIMED
    /\ pc' = [pc EXCEPT ![t] = "idle"]
    /\ ret' = [ret EXCEPT ![t] = "None"]
    /\ dur' = [dur EXCEPT ![t] = NoDur]
    /\ UNCHANGED <<readers, writer, data, rguard, wguard, view, snap, passed, assertFailed>>
    /\ UNCHANGED notXLock

\* LockWriteGuard::deref_mut: a store through the write guard.
deref_mut(t, v) ==
    /\ pc[t] = "W"
    /\ data' = v
    /\ view' = [view EXCEPT ![t] = v]
    /\ UNCHANGED <<readers, writer, pc, dur, rguard, wguard, ret, snap, passed, assertFailed>>
    /\ UNCHANGED notXLock

\* The write_unlock body under the mutex.
write_unlock ==
    /\ assertFailed' = (assertFailed \/ readers # 0 \/ ~writer)
    /\ writer' = FALSE

\* LockWriteGuard::drop: `if self.locked { self.lock.write_unlock() }`, up to drop(state).
drop_write(t) ==
    /\ pc[t] = "W"
    /\ IF wguard[t] = "locked"
       THEN /\ write_unlock
            /\ pc' = [pc EXCEPT ![t] = "wu_notify"]
       ELSE /\ pc' = [pc EXCEPT ![t] = "idle"]
            /\ UNCHANGED <<writer, assertFailed>>
    /\ wguard' = [wguard EXCEPT ![t] = "none"]
    /\ ret' = [ret EXCEPT ![t] = "none"]
    /\ view' = [view EXCEPT ![t] = NoView]
    /\ UNCHANGED <<readers, data, dur, rguard, snap, passed>>
    /\ UNCHANGED notXLock

\* write_unlock after drop(state): sync.cond.notify_one().
write_unlock_notify(t) ==
    /\ pc[t] = "wu_notify"
    /\ LET p == [pc EXCEPT ![t] = "idle"]
       IN  IF Waiting # {}
           THEN \E u \in Waiting : pc' = notify_one(p, u)
           ELSE pc' = p
    /\ UNCHANGED <<readers, writer, data, dur, rguard, wguard, ret, view, snap, passed, assertFailed>>
    /\ UNCHANGED notXLock

------------------------------------------------------------------------------
\* Mutant: the writer flag is cleared, `state.readers = 1` is left out.
downgrade_state_released ==
    /\ assertFailed' = (assertFailed \/ readers # 0 \/ ~writer)
    /\ readers' = 0
    /\ writer' = FALSE

\* The ReadBiased::downgrade body under the mutex.
downgrade_state ==
    /\ assertFailed' = (assertFailed \/ readers # 0 \/ ~writer)
    /\ readers' = 1
    /\ writer' = FALSE

\* LockWriteGuard::downgrade: `self.locked = false`, then S::downgrade up to drop(state).
downgrade(t) ==
    /\ pc[t] = "W"
    /\ wguard' = [wguard EXCEPT ![t] = "consumed"]
    /\ downgrade_state
    /\ pc' = [pc EXCEPT ![t] = "dg_notify"]
    /\ UNCHANGED <<data, dur, rguard, ret, view, snap, passed>>
    /\ UNCHANGED notXLock

\* Mutant: downgrade notifies one waiter, as write_unlock does.
downgrade_wake_one(p) ==
    IF Waiting = {} THEN p ELSE notify_one(p, CHOOSE u \in Waiting : TRUE)

\* `sync.cond.notify_all()` of ReadBiased::downgrade.
downgrade_wake(p) == notify_all(p)

\* S::downgrade after drop(state): notify_all; XLock::downgrade then builds the read guard.
downgrade_notify(t) ==
    /\ pc[t] = "dg_notify"
    /\ pc' = downgrade_wake([pc EXCEPT ![t] = "dg_drop"])
    /\ rguard' = [rguard EXCEPT ![t] = "locked"]
    /\ ret' = [ret EXCEPT ![t] = "Downgraded"]
    /\ UNCHANGED <<readers, writer, data, dur, wguard, view, snap, passed, assertFailed>>
    /\ UNCHANGED notXLock

\* The write guard that downgrade consumed goes out of scope: LockWriteGuard::drop.
drop_consumed_write(t) ==
    /\ pc[t] = "dg_drop"
    /\ IF wguard[t] = "locked"
       THEN write_unlock
       ELSE UNCHANGED <<writer, assertFailed>>
    /\ wguard' = [wguard EXCEPT ![t] = "none"]
    /\ pc' = [pc EXCEPT ![t] = "R"]
    /\ UNCHANGED <<readers, data, dur, rguard, ret, view, snap, passed>>
    /\ UNCHANGED notXLock

------------------------------------------------------------------------------
\* LockReadGuard::upgrade: `self.locked = false`, then self.lock.upgrade(), which is
\* try_upgrade(Duration::MAX).unwrap().
LockReadGuard_upgrade(t) ==
    /\ pc[t] = "R"
    /\ rguard' = [rguard EXCEPT ![t] = "consumed"]
    /\ pc' = [pc EXCEPT ![t] = "try_upgrade"]
    /\ dur' = [dur EXCEPT ![t] = MAX]
    /\ ret' = [ret EXCEPT ![t] = "none"]
    /\ UNCHANGED <<readers, writer, data, wguard, view, snap, passed, assertFailed>>
    /\ UNCHANGED notXLock

\* Mutant: try_upgrade clears `self.locked` before the attempt, as upgrade does.
try_upgrade_self_locked_cleared == "consumed"

\* The read guard's `locked` while LockReadGuard::try_upgrade is in self.lock.try_upgrade.
try_upgrade_self_locked == "locked"

\* LockReadGuard::try_upgrade: enters self.lock.try_upgrade(duration).
LockReadGuard_try_upgrade(t, d) ==
    /\ pc[t] = "R"
    /\ rguard' = [rguard EXCEPT ![t] = try_upgrade_self_locked]
    /\ pc' = [pc EXCEPT ![t] = "try_upgrade"]
    /\ dur' = [dur EXCEPT ![t] = d]
    /\ ret' = [ret EXCEPT ![t] = "none"]
    /\ UNCHANGED <<readers, writer, data, wguard, view, snap, passed, assertFailed>>
    /\ UNCHANGED notXLock

\* Mutant: the upgrade waits only while there is no reader at all.
try_upgrade_blocked_not_sole == readers = 0

\* `while state.readers != 1`
try_upgrade_blocked == readers # 1

\* Mutant: the Some branch leaves `self.locked` set.
upgraded_self_locked_kept == "locked"

\* The read guard's `locked` in the Some branch of LockReadGuard::try_upgrade.
upgraded_self_locked == "consumed"

\* ReadBiased::try_upgrade, one pass of the loop under the mutex; on success the
\* write guard XLock::try_upgrade builds, on a timeout UpgradeOutcome::Unchanged(self).
try_upgrade(t) ==
    /\ pc[t] = "try_upgrade"
    /\ assertFailed' = (assertFailed \/ readers = 0 \/ writer)
    /\ IF try_upgrade_blocked
       THEN /\ IF cond_wait_remedy(dur[t]) = "timed_out"
               THEN /\ pc' = [pc EXCEPT ![t] = "R"]
                    /\ ret' = [ret EXCEPT ![t] = "Unchanged"]
                    /\ dur' = [dur EXCEPT ![t] = NoDur]
               ELSE /\ pc' = [pc EXCEPT ![t] = "up_wait"]
                    /\ UNCHANGED <<ret, dur>>
            /\ UNCHANGED <<readers, writer, rguard, wguard>>
       ELSE /\ readers' = 0
            /\ writer' = TRUE
            /\ wguard' = [wguard EXCEPT ![t] = "locked"]
            /\ rguard' = [rguard EXCEPT ![t] =
                            IF rguard[t] = "locked" THEN upgraded_self_locked ELSE rguard[t]]
            /\ pc' = [pc EXCEPT ![t] = "up_drop"]
            /\ ret' = [ret EXCEPT ![t] = "Upgraded"]
            /\ dur' = [dur EXCEPT ![t] = NoDur]
    /\ UNCHANGED <<data, view, snap, passed>>
    /\ UNCHANGED notXLock

\* `if timed_out { return false }` of try_upgrade: LockReadGuard::try_upgrade
\* returns UpgradeOutcome::Unchanged(self).
try_upgrade_timeout(t) ==
    /\ pc[t] = "up_wait"
    /\ dur[t] = TIMED
    /\ pc' = [pc EXCEPT ![t] = "R"]
    /\ ret' = [ret EXCEPT ![t] = "Unchanged"]
    /\ dur' = [dur EXCEPT ![t] = NoDur]
    /\ UNCHANGED <<readers, writer, data, rguard, wguard, view, snap, passed, assertFailed>>
    /\ UNCHANGED notXLock

\* The read guard that the upgrade consumed goes out of scope: LockReadGuard::drop.
drop_consumed_read(t) ==
    /\ pc[t] = "up_drop"
    /\ IF rguard[t] = "locked"
       THEN read_unlock(t)
       ELSE UNCHANGED <<readers, snap, assertFailed>>
    /\ rguard' = [rguard EXCEPT ![t] = "none"]
    /\ passed' = [passed EXCEPT ![t] = FALSE]
    /\ pc' = [pc EXCEPT ![t] = "W"]
    /\ UNCHANGED <<writer, data, dur, wguard, ret, view>>
    /\ UNCHANGED notXLock

\* LockReadGuard::deref and LockWriteGuard::deref: a load through the guard.
deref(t) ==
    /\ pc[t] \in {"R", "W"}
    /\ view' = [view EXCEPT ![t] = data]
    /\ UNCHANGED <<readers, writer, data, pc, dur, rguard, wguard, ret, snap, passed, assertFailed>>
    /\ UNCHANGED notXLock

\* Condvar::wait and wait_timeout may return without a notification.
spurious_wakeup(t) ==
    /\ pc[t] \in WaitPcs
    /\ pc' = [pc EXCEPT ![t] = Woken(pc[t])]
    /\ UNCHANGED <<readers, writer, data, dur, rguard, wguard, ret, view, snap, passed, assertFailed>>
    /\ UNCHANGED notXLock

------------------------------------------------------------------------------
Next ==
    \E t \in Threads :
        \/ XLock_read(t)
        \/ \E d \in Durations : XLock_try_read(t, d)
        \/ try_read(t)
        \/ try_read_timeout(t)
        \/ drop_read(t)
        \/ read_unlock_notify(t)
        \/ XLock_write(t)
        \/ \E d \in Durations : XLock_try_write(t, d)
        \/ try_write(t)
        \/ try_write_timeout(t)
        \/ \E v \in Values : deref_mut(t, v)
        \/ drop_write(t)
        \/ write_unlock_notify(t)
        \/ downgrade(t)
        \/ downgrade_notify(t)
        \/ drop_consumed_write(t)
        \/ LockReadGuard_upgrade(t)
        \/ \E d \in Durations : LockReadGuard_try_upgrade(t, d)
        \/ try_upgrade(t)
        \/ try_upgrade_timeout(t)
        \/ drop_consumed_read(t)
        \/ deref(t)
        \/ spurious_wakeup(t)

Spec == Init /\ [][Next]_vars

\* What a thread does by itself once it is inside a call: it takes the mutex when
\* it is runnable, it notifies after unlocking, and a timed wait runs out.
Progress(t) ==
    \/ try_read(t)
    \/ try_read_timeout(t)
    \/ read_unlock_notify(t)
    \/ try_write(t)
    \/ try_write_timeout(t)
    \/ write_unlock_notify(t)
    \/ downgrade_notify(t)
    \/ drop_consumed_write(t)
    \/ try_upgrade(t)
    \/ try_upgrade_timeout(t)
    \/ drop_consumed_read(t)

\* The calls that can park a thread on the condition variable or wake one, for the
\* progress properties: the untimed and the timed acquisitions, upgrade, downgrade and
\* the drops.  A call with Duration::ZERO never parks and a store wakes nobody.
FairNext ==
    \E t \in Threads :
        \/ XLock_read(t)
        \/ XLock_try_read(t, TIMED)
        \/ try_read(t)
        \/ try_read_timeout(t)
        \/ drop_read(t)
        \/ read_unlock_notify(t)
        \/ XLock_write(t)
        \/ XLock_try_write(t, TIMED)
        \/ try_write(t)
        \/ try_write_timeout(t)
        \/ drop_write(t)
        \/ write_unlock_notify(t)
        \/ downgrade(t)
        \/ downgrade_notify(t)
        \/ drop_consumed_write(t)
        \/ LockReadGuard_upgrade(t)
        \/ try_upgrade(t)
        \/ drop_consumed_read(t)
        \/ spurious_wakeup(t)

\* Every thread keeps running: nothing is assumed of when a thread starts a call or
\* drops a guard, nor of spurious wakeups.
FairSpec == Init /\ [][FairNext]_vars /\ \A t \in Threads : WF_vars(Progress(t))

------------------------------------------------------------------------------
\* The guards that are live: built, and not yet dropped or consumed.
LiveReadGuards == {t \in Threads : rguard[t] = "locked"}
LiveWriteGuards == {t \in Threads : wguard[t] = "locked"}

\* The threads that hold the lock shared: from the grant of the read guard (or the
\* downgrade) up to its release (or the upgrade), a pending upgrade included.
ReadHolders == {t \in Threads : pc[t] \in {"R", "try_upgrade", "up_wait", "dg_notify", "dg_drop"}}

\* The threads that hold the lock exclusively.
WriteHolders == {t \in Threads : pc[t] \in {"W", "up_drop"}}

Idle == readers = 0 /\ writer = FALSE

\* C1: under ReadBiased, in every reachable state readers == 0 or writer == false,
\* at most one write guard is live, and no read guard is live while a write guard is.
C1_MutualExclusion ==
    /\ readers = 0 \/ writer = FALSE
    /\ Cardinality(LiveWriteGuards) <= 1
    /\ LiveWriteGuards # {} => LiveReadGuards = {}

\* C1's case: a write guard is live while one thread waits to read and another to write.
C1_Witness ==
    \E t, u, v \in Threads :
        /\ wguard[t] = "locked"
        /\ pc[u] = "rd_wait"
        /\ pc[v] = "wr_wait"

\* C2 (state): readers counts exactly the threads that hold the lock shared, writer is
\* set exactly when one thread holds it exclusively, and with every guard dropped the
\* state is readers == 0, writer == false.
C2_Counted ==
    /\ readers = Cardinality(ReadHolders)
    /\ Cardinality(WriteHolders) <= 1
    /\ writer <=> WriteHolders # {}
    /\ (\A t \in Threads : rguard[t] = "none" /\ wguard[t] = "none" /\ pc[t] # "dg_notify")
          => Idle

\* C2 (step): the drop of a guard that upgrade, try_upgrade or downgrade consumed
\* unlocks nothing.
C2_NoSecondUnlock ==
    \A t \in Threads :
        (pc[t] \in {"up_drop", "dg_drop"} /\ pc'[t] # pc[t])
            => UNCHANGED <<readers, writer>>

\* C2: every guard that was acquired is released exactly once.
C2_ReleasedOnce == [](C2_Counted) /\ [][C2_NoSecondUnlock]_vars

\* C2's case: a thread is dropping the read guard its successful try_upgrade consumed
\* while another thread's write() waits.
C2_Witness ==
    \E t, u \in Threads :
        /\ pc[t] = "up_drop"
        /\ ret[t] = "Upgraded"
        /\ rguard[t] = "consumed"
        /\ pc[u] = "wr_wait"

\* C3 (step): downgrade takes the state from (writer, readers == 0) to
\* (not writer, readers == 1) in the one step it takes under the mutex.
C3_DowngradeStep ==
    \A t \in Threads :
        (pc[t] = "W" /\ pc'[t] # "W" /\ wguard'[t] = "consumed")
            => /\ writer /\ readers = 0
               /\ ~writer' /\ readers' = 1
               /\ pc'[t] = "dg_notify"

\* C3 (state): downgrade is always possible for the holder of the write guard; from the
\* grant of the write guard to the drop of the read guard the downgrade returned, the
\* lock is never idle and no other thread holds it exclusively.
C3_NoWindow ==
    \A t \in Threads :
        /\ pc[t] = "W" => ENABLED downgrade(t)
        /\ (pc[t] \in {"W", "dg_notify", "dg_drop"} \/ (pc[t] = "R" /\ ret[t] = "Downgraded"))
              => /\ ~Idle
                 /\ WriteHolders \subseteq {t}
                 /\ LiveWriteGuards \subseteq {t}

\* C3: downgrade never blocks, always succeeds and leaves no release window.
C3_DowngradeAtomic == [](C3_NoWindow) /\ [][C3_DowngradeStep]_vars

\* C3's case: the read guard a downgrade returned is held while another thread's
\* write() is blocked and a third holds a read guard of its own.
C3_Witness ==
    \E t, u, v \in Threads :
        /\ pc[t] = "R" /\ ret[t] = "Downgraded" /\ rguard[t] = "locked"
        /\ pc[u] = "wr_wait" /\ dur[u] = MAX
        /\ v # t /\ pc[v] = "R"

\* C4 (step): an upgrade completes only in one step from (readers == 1, not writer),
\* the one reader being the caller, to (readers == 0, writer).
C4_UpgradeStep ==
    \A t \in Threads :
        (pc[t] # "up_drop" /\ pc'[t] = "up_drop")
            => /\ pc[t] = "try_upgrade"
               /\ readers = 1 /\ ~writer /\ ReadHolders = {t}
               /\ readers' = 0 /\ writer'
               /\ wguard'[t] = "locked"

\* C4 (state): from the grant of the read guard to the end of the upgrade the lock is
\* never idle and no other thread holds it exclusively.
C4_NoWindow ==
    \A t \in Threads :
        pc[t] \in {"R", "try_upgrade", "up_wait", "up_drop"}
            => /\ ~Idle
               /\ WriteHolders \subseteq {t}
               /\ LiveWriteGuards \subseteq {t}

\* C4: upgrade and try_upgrade hand out the write guard atomically, with no release window.
C4_UpgradeAtomic == [](C4_NoWindow) /\ [][C4_UpgradeStep]_vars

\* C4's case: a try_upgrade has just completed while another thread's write() is
\* still blocked.
C4_Witness ==
    \E t, u \in Threads :
        /\ pc[t] = "up_drop" /\ ret[t] = "Upgraded" /\ rguard[t] = "consumed"
        /\ wguard[t] = "locked"
        /\ pc[u] \in {"wr_wait", "try_write"} /\ dur[u] = MAX

\* C5 (step): when try_upgrade gives up, the caller gets UpgradeOutcome::Unchanged with
\* its read guard still locked, and readers and writer are as they were.
C5_TimeoutStep ==
    \A t \in Threads :
        (pc[t] \in {"try_upgrade", "up_wait"} /\ pc'[t] = "R")
            => /\ ret'[t] = "Unchanged"
               /\ rguard'[t] = "locked"
               /\ UNCHANGED <<readers, writer>>

\* C5 (step): the drop of the guard that came back Unchanged decrements readers once.
C5_DropStep ==
    \A t \in Threads :
        (pc[t] = "R" /\ ret[t] = "Unchanged" /\ pc'[t] \notin {"R", "try_upgrade"})
            => /\ readers' = readers - 1
               /\ pc'[t] = "ru_notify"
               /\ rguard'[t] = "none"

\* C5 (state): while the attempt runs and while the returned guard lives the caller is
\* counted in readers and no thread holds the lock exclusively.
C5_StillReader ==
    \A t \in Threads :
        (pc[t] \in {"try_upgrade", "up_wait"} \/ (pc[t] = "R" /\ ret[t] = "Unchanged"))
            => /\ t \in ReadHolders
               /\ readers = Cardinality(ReadHolders)
               /\ ~writer
               /\ WriteHolders = {}
               /\ LiveWriteGuards = {}

\* C5: a try_upgrade that times out returns the original read guard, which keeps
\* protecting the caller and is released exactly once, by its drop.
C5_UnchangedKeepsRead == [](C5_StillReader) /\ [][C5_TimeoutStep /\ C5_DropStep]_vars

\* C5's case: a timed try_upgrade has come back Unchanged and the guard is held while
\* another thread's write() is blocked on it.
C5_Witness ==
    \E t, u \in Threads :
        /\ pc[t] = "R" /\ ret[t] = "Unchanged" /\ rguard[t] = "locked"
        /\ readers = 1
        /\ pc[u] = "wr_wait"

\* The positions of a try_read or try_write that has not been granted the lock.
AcquiringPcs == {"try_read", "rd_wait", "try_write", "wr_wait"}

\* C6: a try_read or try_write that fails returns None, and no step of the failed call
\* (entering, waiting, waking, giving up) changes readers or writer.
C6_FailedStep ==
    \A t \in Threads :
        /\ (pc[t] \in AcquiringPcs /\ pc'[t] = "idle")
              => /\ ret'[t] = "None"
                 /\ rguard'[t] = "none" /\ wguard'[t] = "none"
                 /\ UNCHANGED <<readers, writer, data>>
        /\ (pc[t] \in AcquiringPcs \cup {"idle"} /\ pc'[t] \in AcquiringPcs /\ pc'[t] # pc[t])
              => UNCHANGED <<readers, writer, data>>

C6_TimeoutLeavesState == [][C6_FailedStep]_vars

\* C6's case: a try_read or try_write has returned None and has left behind a lock
\* that one reader holds.
C6_Witness ==
    \E t, u \in Threads :
        /\ pc[t] = "idle" /\ ret[t] = "None"
        /\ pc[u] = "R" /\ readers = 1 /\ ~writer

\* C7 (step): with Duration::ZERO the one pass under the mutex decides: try_read gives a
\* guard iff no writer is active, try_write iff readers == 0 and no writer is active,
\* try_upgrade gives Upgraded iff readers == 1 and else Unchanged with the read guard
\* still locked.
C7_ZeroStep ==
    \A t \in Threads :
        (dur[t] = ZERO /\ pc'[t] # pc[t])
            => /\ pc[t] = "try_read" =>
                    IF ~writer
                    THEN pc'[t] = "R" /\ ret'[t] = "Some" /\ rguard'[t] = "locked"
                         /\ readers' = readers + 1
                    ELSE pc'[t] = "idle" /\ ret'[t] = "None" /\ UNCHANGED <<readers, writer>>
               /\ pc[t] = "try_write" =>
                    IF readers = 0 /\ ~writer
                    THEN pc'[t] = "W" /\ ret'[t] = "Some" /\ wguard'[t] = "locked" /\ writer'
                    ELSE pc'[t] = "idle" /\ ret'[t] = "None" /\ UNCHANGED <<readers, writer>>
               /\ pc[t] = "try_upgrade" =>
                    IF readers = 1
                    THEN pc'[t] = "up_drop" /\ ret'[t] = "Upgraded" /\ wguard'[t] = "locked"
                         /\ readers' = 0 /\ writer'
                    ELSE pc'[t] = "R" /\ ret'[t] = "Unchanged" /\ rguard'[t] = "locked"
                         /\ UNCHANGED <<readers, writer>>

\* C7 (state): a call with Duration::ZERO is never parked on the condition variable.
C7_NeverWaits == \A t \in Threads : pc[t] \in WaitPcs => dur[t] # ZERO

\* C7: Duration::ZERO means one attempt and no wait.
C7_ZeroTriesOnce == [](C7_NeverWaits) /\ [][C7_ZeroStep]_vars

\* C7's case: try_upgrade(ZERO) has come back Unchanged beside a second reader, and a
\* try_write(ZERO) by a third thread has come back None.
C7_Witness ==
    \E t, u, v \in Threads :
        /\ pc[t] = "R" /\ ret[t] = "Unchanged" /\ rguard[t] = "locked"
        /\ u # t /\ pc[u] = "R" /\ readers = 2
        /\ pc[v] = "idle" /\ ret[v] = "None"

\* C8: what a thread has read or stored through the guard it holds is the value of the
\* cell: nothing else stores while the guard lives, so the value stored under a write
\* guard is what its downgraded read guard and every later guard see.
C8_ReadsLastWrite ==
    \A t \in Threads :
        /\ view[t] # NoView => view[t] = data
        /\ t \in ReadHolders \cup WriteHolders => view[t] = data

\* C8's case: a value other than the initial one has been stored, and a thread that
\* downgraded its write guard and another reader both read it through their guards.
C8_Witness ==
    \E t, u \in Threads :
        /\ pc[t] = "R" /\ ret[t] = "Downgraded" /\ view[t] = data /\ data # 0
        /\ u # t /\ pc[u] = "R" /\ ret[u] = "Some" /\ view[u] = data

\* A thread inside the untimed write(), not yet granted the lock.
BlockedInWrite(t) == pc[t] \in {"wr_wait", "try_write"} /\ dur[t] = MAX

\* C9 (step): a reader that takes the mutex while no writer is active is granted its
\* guard in that pass, whoever waits to write; it parks or fails only on writer == true.
C9_ReaderStep ==
    \A t \in Threads :
        /\ (pc[t] = "try_read" /\ pc'[t] # pc[t] /\ ~writer)
              => pc'[t] = "R" /\ rguard'[t] = "locked" /\ readers' = readers + 1
        /\ (pc[t] = "try_read" /\ pc'[t] \in {"rd_wait", "idle"}) => writer

\* C9 (progress): once every guard has been dropped, a lock does not stay idle under a
\* thread blocked in write(): that thread is granted the write guard, unless a further
\* reader or another writer takes the lock first.
C9_WriterProgress ==
    \A t \in Threads :
        (BlockedInWrite(t) /\ Idle) ~> (pc[t] = "W" \/ ~Idle)

\* C9: readers are admitted past a blocked writer, and the writer gets the lock once
\* the readers are gone.
C9_ReadBiased == [][C9_ReaderStep]_vars /\ C9_WriterProgress

\* C9's case: one thread holds a read guard, a second is parked in write(), and a third
\* holds a read guard it was granted while that write() was parked.
C9_Witness ==
    \E a, b, c \in Threads :
        /\ pc[a] = "R" /\ a # c
        /\ pc[b] = "wr_wait" /\ dur[b] = MAX
        /\ pc[c] = "R" /\ passed[c] /\ ret[c] = "Some"

\* A write() called while a read guard is out and no other write() is blocked.
write_under_readers(t) ==
    /\ readers >= 1
    /\ \A u \in Threads \ {t} : ~BlockedInWrite(u)
    /\ XLock_write(t)

\* A read guard dropped while another read guard is out.
drop_read_overlapped(t) ==
    /\ readers >= 2
    /\ drop_read(t)

\* Sustained reader traffic: the threads call read() and write() only, no reader drops
\* the last read guard, and write() is called under a reader.
StarveNext ==
    \E t \in Threads :
        \/ XLock_read(t)
        \/ try_read(t)
        \/ drop_read_overlapped(t)
        \/ read_unlock_notify(t)
        \/ write_under_readers(t)
        \/ try_write(t)
        \/ spurious_wakeup(t)

\* The reader traffic under a fair scheduler: every thread keeps running (Progress), an
\* idle thread comes back with a read(), and of two overlapping guards one is dropped.
StarveSpec ==
    /\ Init /\ [][StarveNext]_vars
    /\ \A t \in Threads :
          /\ WF_vars(Progress(t))
          /\ WF_vars(XLock_read(t))
          /\ WF_vars(drop_read_overlapped(t))

\* C10 (step): under the reader traffic a thread blocked in write() stays blocked and
\* readers stays above 0.
C10_StarvedStep ==
    \A t \in Threads :
        BlockedInWrite(t) => BlockedInWrite(t)' /\ readers' >= 1

\* C10 (traffic): read guards are granted again and again.
C10_ReadGranted ==
    \E u \in Threads : pc[u] = "try_read" /\ pc'[u] = "R"

\* C10: with readers arriving so that guards always overlap, every fair execution goes
\* on granting read guards for ever while a thread blocked in write() never acquires.
C10_WriterStarves == [][C10_StarvedStep]_vars /\ []<><<C10_ReadGranted>>_vars

\* C10's case: a write() is parked, has been woken and has parked again, while a reader
\* that was granted its guard past it holds the lock.
C10_Witness ==
    \E t, u \in Threads :
        /\ pc[t] = "wr_wait" /\ dur[t] = MAX
        /\ pc[u] = "R" /\ passed[u] /\ readers = 1
        /\ \E v \in Threads \ {t, u} : pc[v] = "idle" /\ ret[v] = "none" /\ snap[v] = 0

\* A thread inside upgrade or try_upgrade that has not been answered yet.
PendingUpgrade(t) == pc[t] \in {"try_upgrade", "up_wait"}

\* Thread u is granted a read guard by try_read in this step.
NewReadGuard(u) == pc[u] = "try_read" /\ pc'[u] = "R"

\* Thread u is granted a write guard in this step, by try_write or by try_upgrade.
NewWriteGuard(u) ==
    \/ pc[u] = "try_write" /\ pc'[u] = "W"
    \/ pc[u] = "try_upgrade" /\ pc'[u] = "up_drop"

\* C11 as stated: while a thread is parked in upgrade or try_upgrade beside other
\* readers, no other thread is granted a read guard or a write guard.
C11_NoNewGuardStep ==
    \A t \in Threads :
        (pc[t] = "up_wait" /\ pc'[t] = "up_wait" /\ readers # 1)
            => \A u \in Threads \ {t} : ~NewReadGuard(u) /\ ~NewWriteGuard(u)

C11_NoNewGuard == [][C11_NoNewGuardStep]_vars

\* C11 (state): a thread inside upgrade or try_upgrade is counted in readers and no
\* writer is active.
C11_StillCounted ==
    \A t \in Threads :
        PendingUpgrade(t) => t \in ReadHolders /\ readers >= 1 /\ ~writer /\ WriteHolders = {}

\* C11 (step): while a thread is inside upgrade or try_upgrade no other thread is
\* granted a write guard.
C11_NoNewWriterStep ==
    \A t \in Threads :
        (PendingUpgrade(t) /\ PendingUpgrade(t)')
            => \A u \in Threads \ {t} : ~NewWriteGuard(u)

\* C11, amended: a pending upgrader still counts as a reader and keeps every writer
\* out; readers are still admitted beside it.
C11_PendingUpgradeHoldsRead == [](C11_StillCounted) /\ [][C11_NoNewWriterStep]_vars

\* C11's case: a thread is parked in upgrade beside a reader that was granted its guard
\* past a parked write(), and that write() is still parked.
C11_Witness ==
    \E t, u, v \in Threads :
        /\ pc[t] = "up_wait" /\ dur[t] = MAX
        /\ pc[u] = "R" /\ passed[u] /\ readers = 2
        /\ pc[v] = "wr_wait"

\* The calls of the upgrade paths: read(), upgrade(), the timed try_upgrade, write() and
\* the drops.
UpgradeNext ==
    \E t \in Threads :
        \/ XLock_read(t)
        \/ try_read(t)
        \/ drop_read(t)
        \/ read_unlock_notify(t)
        \/ XLock_write(t)
        \/ try_write(t)
        \/ drop_write(t)
        \/ write_unlock_notify(t)
        \/ LockReadGuard_upgrade(t)
        \/ LockReadGuard_try_upgrade(t, TIMED)
        \/ try_upgrade(t)
        \/ try_upgrade_timeout(t)
        \/ drop_consumed_read(t)
        \/ spurious_wakeup(t)

\* Every thread keeps running, and a timed wait does not outlast its deadline however
\* often it is woken: the deadline is fixed when the call starts.
UpgradeSpec ==
    /\ Init /\ [][UpgradeNext]_vars
    /\ \A t \in Threads :
          /\ WF_vars(Progress(t))
          /\ SF_vars(try_upgrade_timeout(t))

\* Threads t and u are both inside the untimed upgrade().
BothUpgrading(t, u) ==
    /\ t # u
    /\ PendingUpgrade(t) /\ dur[t] = MAX
    /\ PendingUpgrade(u) /\ dur[u] = MAX

\* C12 (deadlock): two threads inside the untimed upgrade() stay inside it.
C12_DeadlockStep ==
    \A t, u \in Threads : BothUpgrading(t, u) => BothUpgrading(t, u)'

\* C12 (outcome): a timed try_upgrade that ends while another thread is inside the
\* untimed upgrade() ends as Unchanged, its read guard still locked.
C12_TimedOutStep ==
    \A t, u \in Threads :
        (/\ t # u
         /\ PendingUpgrade(t) /\ dur[t] = TIMED
         /\ PendingUpgrade(u) /\ dur[u] = MAX
         /\ ~PendingUpgrade(t)')
            => pc'[t] = "R" /\ ret'[t] = "Unchanged" /\ rguard'[t] = "locked"

\* C12 (timeout): the timed try_upgrade beside an untimed upgrade() does end.
C12_TimesOut ==
    \A t \in Threads :
        (/\ PendingUpgrade(t) /\ dur[t] = TIMED
         /\ \E u \in Threads \ {t} : PendingUpgrade(u) /\ dur[u] = MAX)
            ~> (pc[t] = "R" /\ ret[t] = "Unchanged")

\* C12 (completion): once the untimed upgrader is the only reader left, its upgrade
\* completes, unless a further reader is admitted first.
C12_Completes ==
    \A u \in Threads :
        (PendingUpgrade(u) /\ dur[u] = MAX /\ readers = 1)
            ~> (ret[u] = "Upgraded" \/ readers # 1)

\* C12: two untimed upgrades deadlock; a timed try_upgrade gives way with Unchanged and
\* dropping its guard lets the other upgrade through.
C12_UpgradeDeadlock ==
    /\ [][C12_DeadlockStep /\ C12_TimedOutStep]_vars
    /\ C12_TimesOut
    /\ C12_Completes

\* C12's case: two threads are parked in the untimed upgrade() beside a third reader
\* whose timed try_upgrade has come back Unchanged.
C12_Witness ==
    \E t, u, v \in Threads :
        /\ BothUpgrading(t, u) /\ pc[t] = "up_wait" /\ pc[u] = "up_wait"
        /\ pc[v] = "R" /\ ret[v] = "Unchanged" /\ rguard[v] = "locked"
        /\ readers = 3

------------------------------------------------------------------------------
\* SpinLock (libmutex/src/spinlock.rs).

\* SpinLock::try_lock is called.
SpinLock_try_lock(t) ==
    /\ spc[t] = "idle"
    /\ spc' = [spc EXCEPT ![t] = "try_lock"]
    /\ sret' = [sret EXCEPT ![t] = "none"]
    /\ UNCHANGED locked
    /\ UNCHANGED notSpinLock

\* SpinLock::lock is called: `let mut guard = None; while guard.is_none()`.
SpinLock_lock(t) ==
    /\ spc[t] = "idle"
    /\ spc' = [spc EXCEPT ![t] = "lock"]
    /\ sret' = [sret EXCEPT ![t] = "none"]
    /\ UNCHANGED locked
    /\ UNCHANGED notSpinLock

\* Mutant: a swap in place of the compare-and-exchange: it always reports success.
compare_exchange_is_ok_always(current, expected) == TRUE

\* `self.locked.compare_exchange(false, true, ..).is_ok()`: whether the exchange takes
\* place, given the flag's current value.
compare_exchange_is_ok(current, expected) == current = expected

\* Mutant: a try_lock that found the flag set goes round again, as lock() does.
after_none_retries(p) == "lock"

\* Where a thread goes when try_lock has returned None: back to the caller of
\* try_lock, or round the `while guard.is_none()` of lock().
after_none(p) == IF p = "lock" THEN "lock" ELSE "idle"

\* The body of SpinLock::try_lock, called directly or from the loop of lock().
try_lock(t) ==
    /\ spc[t] \in {"try_lock", "lock"}
    /\ IF compare_exchange_is_ok(locked, FALSE)
       THEN /\ locked' = TRUE
            /\ spc' = [spc EXCEPT ![t] = "held"]
            /\ sret' = [sret EXCEPT ![t] = "Some"]
       ELSE /\ spc' = [spc EXCEPT ![t] = after_none(spc[t])]
            /\ sret' = [sret EXCEPT ![t] = "None"]
            /\ UNCHANGED locked
    /\ UNCHANGED notSpinLock

\* SpinLock::unlock: `self.locked.store(false, Ordering::Release)`.
unlock == locked' = FALSE

\* SpinGuard::drop: `self.lock.unlock()`.
SpinGuard_drop(t) ==
    /\ spc[t] = "held"
    /\ unlock
    /\ spc' = [spc EXCEPT ![t] = "idle"]
    /\ sret' = [sret EXCEPT ![t] = "none"]
    /\ UNCHANGED notSpinLock

\* lock, try_lock and the guards' drops, by any thread at any time.
SpinNext ==
    \E t \in Threads :
        \/ SpinLock_try_lock(t)
        \/ SpinLock_lock(t)
        \/ try_lock(t)
        \/ SpinGuard_drop(t)

SpinSpec == Init /\ [][SpinNext]_spinVars

\* The threads that own a SpinGuard.
SpinHolders == {t \in Threads : spc[t] = "held"}

\* C14 (state): at most one SpinGuard is live, and the flag is set exactly while one is.
C14_OneHolder ==
    /\ Cardinality(SpinHolders) <= 1
    /\ locked <=> SpinHolders # {}

\* C14 (step): the drop of the guard clears the flag.
C14_DropStep ==
    \A t \in Threads : (spc[t] = "held" /\ spc'[t] # "held") => ~locked'

\* C14: at most one SpinGuard at a time, and its drop clears the locked flag.
C14_SpinExclusion == [](C14_OneHolder) /\ [][C14_DropStep]_spinVars

\* C14's case: one thread owns the guard while a second spins in lock() and a third
\* has had None from try_lock.
C14_Witness ==
    \E t, u, v \in Threads :
        /\ spc[t] = "held" /\ locked
        /\ spc[u] = "lock" /\ sret[u] = "None"
        /\ spc[v] = "idle" /\ sret[v] = "None"

\* C15 (step): try_lock decides in its one compare-and-exchange: a guard and the flag
\* set iff the flag was false, else None with the flag as it was; the call is over in
\* either case.
C15_TryLockStep ==
    \A t \in Threads :
        (spc[t] = "try_lock" /\ spc'[t] # spc[t])
            => IF ~locked
               THEN spc'[t] = "held" /\ sret'[t] = "Some" /\ locked'
               ELSE spc'[t] = "idle" /\ sret'[t] = "None" /\ locked' = locked

\* C15 (step): an attempt made when no guard is live succeeds, from try_lock and from
\* lock() alike.
C15_FreeStep ==
    \A t \in Threads :
        (spc[t] \in {"try_lock", "lock"} /\ SpinHolders = {} /\ <<spc[t], sret[t]>>' # <<spc[t], sret[t]>>)
            => spc'[t] = "held" /\ sret'[t] = "Some"

\* C15: try_lock makes one attempt and never waits; once the guard has been dropped the
\* next attempt succeeds.
C15_TryLockOnce == [][C15_TryLockStep /\ C15_FreeStep]_spinVars

\* C15's case: one thread owns the guard it was given and another thread's try_lock
\* has come back None.
C15_Witness ==
    \E t, u \in Threads :
        /\ spc[t] = "held" /\ sret[t] = "Some"
        /\ spc[u] = "idle" /\ sret[u] = "None"
        /\ \A v \in Threads \ {t, u} : spc[v] = "idle" /\ sret[v] = "none"

------------------------------------------------------------------------------
\* Completable (specification, 4.5): an optional value behind a mutex and a condition
\* variable.  Each critical section on the mutex is one action.

\* The threads parked on the cell's condition variable.
CompWaiting == {u \in Threads : cpc[u] \in {"get_wait", "try_get_wait"}}

\* A waiter that leaves the wait re-locks the mutex and looks at the cell again.
CompWoken(p) ==
    CASE p = "get_wait" -> "get"
      [] p = "try_get_wait" -> "try_get"
      [] OTHER -> p

\* Mutant: the fill wakes nobody.
fill_wakes_nobody(W) == {}

\* "fills and wakes all waiters": the waiters a fill wakes.
fill_wakes(W) == W

\* The positions after a fill by thread t.
after_fill(t) ==
    [u \in Threads |->
        IF u = t THEN "idle"
        ELSE IF u \in fill_wakes(CompWaiting) THEN CompWoken(cpc[u]) ELSE cpc[u]]

\* Mutant: a fill replaces the value that is there.
is_empty_or_filled(c) == TRUE

\* The empty-check that complete and complete_exclusive make under the mutex.
is_empty(c) == c = Empty

\* complete(value) is called.
Completable_complete(t, v) ==
    /\ cpc[t] = "idle"
    /\ cpc' = [cpc EXCEPT ![t] = "complete"]
    /\ carg' = [carg EXCEPT ![t] = v]
    /\ cret' = [cret EXCEPT ![t] = "none"]
    /\ cview' = [cview EXCEPT ![t] = Empty]
    /\ UNCHANGED <<cell, born, cdur, wins, invokedBy>>
    /\ UNCHANGED notCompletable

\* complete under the mutex: "if empty, fills and wakes all waiters, returns true.  If
\* already filled, discards the supplied value and returns false."
complete(t) ==
    /\ cpc[t] = "complete"
    /\ IF is_empty(cell)
       THEN /\ cell' = carg[t]
            /\ cpc' = after_fill(t)
            /\ cret' = [cret EXCEPT ![t] = "true"]
            /\ wins' = wins + 1
       ELSE /\ cpc' = [cpc EXCEPT ![t] = "idle"]
            /\ cret' = [cret EXCEPT ![t] = "false"]
            /\ UNCHANGED <<cell, wins>>
    /\ carg' = [carg EXCEPT ![t] = Empty]
    /\ UNCHANGED <<born, cdur, cview, invokedBy>>
    /\ UNCHANGED notCompletable

\* complete_exclusive(producer) is called; v is what the producer would return.
Completable_complete_exclusive(t, v) ==
    /\ cpc[t] = "idle"
    /\ cpc' = [cpc EXCEPT ![t] = "complete_exclusive"]
    /\ carg' = [carg EXCEPT ![t] = v]
    /\ cret' = [cret EXCEPT ![t] = "none"]
    /\ cview' = [cview EXCEPT ![t] = Empty]
    /\ UNCHANGED <<cell, born, cdur, wins, invokedBy>>
    /\ UNCHANGED notCompletable

\* Mutant: complete_exclusive as complete(producer()): the producer runs before the
\* empty-check.
complete_exclusive_produces_first(t) ==
    /\ cpc[t] = "complete_exclusive"
    /\ invokedBy' = invokedBy \cup {t}
    /\ IF is_empty(cell)
       THEN /\ cell' = carg[t]
            /\ cpc' = after_fill(t)
       ELSE /\ cpc' = [cpc EXCEPT ![t] = "idle"]
            /\ UNCHANGED cell
    /\ carg' = [carg EXCEPT ![t] = Empty]
    /\ cret' = [cret EXCEPT ![t] = "unit"]
    /\ UNCHANGED <<born, cdur, cview, wins>>
    /\ UNCHANGED notCompletable

\* complete_exclusive under the mutex: "calls the producer only if empty, storing its
\* result"; the mutex is held around the empty-check and the fill.
complete_exclusive(t) ==
    /\ cpc[t] = "complete_exclusive"
    /\ IF is_empty(cell)
       THEN /\ invokedBy' = invokedBy \cup {t}
            /\ cell' = carg[t]
            /\ cpc' = after_fill(t)
       ELSE /\ cpc' = [cpc EXCEPT ![t] = "idle"]
            /\ UNCHANGED <<cell, invokedBy>>
    /\ carg' = [carg EXCEPT ![t] = Empty]
    /\ cret' = [cret EXCEPT ![t] = "unit"]
    /\ UNCHANGED <<born, cdur, cview, wins>>
    /\ UNCHANGED notCompletable

\* The view of the cell a call hands out: "Some" with the value, or the empty view.
view_of(c) == IF c = Empty THEN "None" ELSE "Some"

\* peek: "non-blocking; returns a readable view that is either empty or contains a
\* shared view of the stored value."
peek(t) ==
    /\ cpc[t] = "idle"
    /\ cret' = [cret EXCEPT ![t] = view_of(cell)]
    /\ cview' = [cview EXCEPT ![t] = cell]
    /\ UNCHANGED <<cell, born, cpc, carg, cdur, wins, invokedBy>>
    /\ UNCHANGED notCompletable

\* get() and try_get(duration) are called.
Completable_try_get(t, d) ==
    /\ cpc[t] = "idle"
    /\ cpc' = [cpc EXCEPT ![t] = IF d = MAX THEN "get" ELSE "try_get"]
    /\ cdur' = [cdur EXCEPT ![t] = d]
    /\ cret' = [cret EXCEPT ![t] = "none"]
    /\ cview' = [cview EXCEPT ![t] = Empty]
    /\ UNCHANGED <<cell, born, carg, wins, invokedBy>>
    /\ UNCHANGED notCompletable

Completable_get(t) == Completable_try_get(t, MAX)

\* get "blocks until filled"; try_get is its timed variant.
get_blocked(c) == c = Empty

\* get and try_get under the mutex: a view of the value, or the wait, or, with no time
\* left, the empty view.
try_get(t) ==
    /\ cpc[t] \in {"get", "try_get"}
    /\ IF get_blocked(cell)
       THEN IF cond_wait_remedy(cdur[t]) = "timed_out"
            THEN /\ cpc' = [cpc EXCEPT ![t] = "idle"]
                 /\ cret' = [cret EXCEPT ![t] = "None"]
                 /\ cdur' = [cdur EXCEPT ![t] = NoDur]
                 /\ UNCHANGED cview
            ELSE /\ cpc' = [cpc EXCEPT ![t] = IF cpc[t] = "get" THEN "get_wait" ELSE "try_get_wait"]
                 /\ UNCHANGED <<cret, cdur, cview>>
       ELSE /\ cpc' = [cpc EXCEPT ![t] = "idle"]
            /\ cret' = [cret EXCEPT ![t] = view_of(cell)]
            /\ cview' = [cview EXCEPT ![t] = cell]
            /\ cdur' = [cdur EXCEPT ![t] = NoDur]
    /\ UNCHANGED <<cell, born, carg, wins, invokedBy>>
    /\ UNCHANGED notCompletable

\* try_get "returns an empty view on timeout": the timed wait ran out.
try_get_timeout(t) ==
    /\ cpc[t] = "try_get_wait"
    /\ cpc' = [cpc EXCEPT ![t] = "idle"]
    /\ cret' = [cret EXCEPT ![t] = "None"]
    /\ cdur' = [cdur EXCEPT ![t] = NoDur]
    /\ UNCHANGED <<cell, born, carg, cview, wins, invokedBy>>
    /\ UNCHANGED notCompletable

\* The condition variable's wait may return without a notification.
comp_spurious_wakeup(t) ==
    /\ cpc[t] \in {"get_wait", "try_get_wait"}
    /\ cpc' = [cpc EXCEPT ![t] = CompWoken(cpc[t])]
    /\ UNCHANGED <<cell, born, carg, cdur, cret, cview, wins, invokedBy>>
    /\ UNCHANGED notCompletable

\* into_inner "consumes the cell, yields the optional value": the caller owns the cell,
\* so no thread is inside a call, and none can call it afterwards.
into_inner(t) ==
    /\ \A u \in Threads : cpc[u] = "idle"
    /\ cpc' = [u \in Threads |-> "moved"]
    /\ cret' = [cret EXCEPT ![t] = view_of(cell)]
    /\ cview' = [cview EXCEPT ![t] = cell]
    /\ UNCHANGED <<cell, born, carg, cdur, wins, invokedBy>>
    /\ UNCHANGED notCompletable

CompNext ==
    \E t \in Threads :
        \/ \E v \in Values : Completable_complete(t, v)
        \/ complete(t)
        \/ \E v \in Values : Completable_complete_exclusive(t, v)
        \/ complete_exclusive(t)
        \/ peek(t)
        \/ Completable_get(t)
        \/ \E d \in {ZERO, TIMED} : Completable_try_get(t, d)
        \/ try_get(t)
        \/ try_get_timeout(t)
        \/ comp_spurious_wakeup(t)
        \/ into_inner(t)

\* The cell constructed either way.
CompInit ==
    /\ XLock_Init /\ SpinLock_new /\ UrwLock_new(FALSE)
    /\ \E c \in {Empty} \cup Values : Completable_new(c)

CompSpec == CompInit /\ [][CompNext]_compVars

\* C16 (state): at most one complete has returned true, none on a cell constructed
\* filled; every view handed out holds the value the cell holds.
C16_OneWinner ==
    /\ wins <= 1
    /\ born = "new" => wins = 0 /\ cell # Empty
    /\ wins = 1 => cell # Empty
    /\ \A t \in Threads : cret[t] = "Some" => cview[t] = cell /\ cell # Empty

\* C16 (step): complete returns true iff it found the cell empty, and then it is the
\* one that fills it; a filled cell keeps its value.
C16_CompleteStep ==
    /\ \A t \in Threads :
          (cpc[t] = "complete" /\ cpc'[t] # "complete")
              => /\ cret'[t] = (IF cell = Empty THEN "true" ELSE "false")
                 /\ cret'[t] = "true" => cell' = carg[t] /\ wins' = wins + 1
                 /\ cret'[t] = "false" => wins' = wins
    /\ cell # Empty => cell' = cell

\* C16: complete succeeds for exactly one caller, and the value, once set, is never
\* replaced.
C16_WriteOnce == [](C16_OneWinner) /\ [][C16_CompleteStep]_compVars

\* C16's case: on a cell constructed empty one complete has returned true, a later one
\* false, and into_inner has yielded the value.
C16_Witness ==
    \E t, u \in Threads :
        /\ born = "default" /\ wins = 1
        /\ cret[t] = "false"
        /\ cpc[u] = "moved" /\ cret[u] = "Some" /\ cview[u] = cell

\* The steps a thread takes inside a call on the cell once it has the mutex, and the
\* expiry of its timed wait.
CompProgress(t) ==
    \/ complete(t)
    \/ complete_exclusive(t)
    \/ try_get(t)
    \/ try_get_timeout(t)

\* The calls of the waiting paths: complete, get, try_get and peek.
CompFairNext ==
    \E t \in Threads :
        \/ \E v \in Values : Completable_complete(t, v)
        \/ complete(t)
        \/ peek(t)
        \/ Completable_get(t)
        \/ \E d \in {ZERO, TIMED} : Completable_try_get(t, d)
        \/ try_get(t)
        \/ try_get_timeout(t)
        \/ comp_spurious_wakeup(t)

\* Every thread keeps running.
CompFairSpec ==
    CompInit /\ [][CompFairNext]_compVars /\ \A t \in Threads : WF_compVars(CompProgress(t))

\* C17 (state): nobody stays parked on a filled cell, and get has never handed out an
\* empty view.
C17_NoWaiterOnFilled ==
    /\ cell # Empty => CompWaiting = {}
    /\ \A t \in Threads : cpc[t] \in {"get", "get_wait"} => cret[t] = "none"

\* C17 (step): get returns only a view of the value; try_get returns the empty view
\* only from an empty cell, be it with no time left (try_get(0) answers in its one
\* pass) or when its wait runs out; a peek sees what is there.
C17_ViewStep ==
    \A t \in Threads :
        /\ (cpc[t] = "get" /\ cpc'[t] = "idle")
              => cell # Empty /\ cret'[t] = "Some" /\ cview'[t] = cell
        /\ (cpc[t] \in {"try_get", "try_get_wait"} /\ cpc'[t] = "idle")
              => IF cell = Empty
                 THEN cret'[t] = "None"
                 ELSE cret'[t] = "Some" /\ cview'[t] = cell
        /\ (cpc[t] = "try_get" /\ cdur[t] = ZERO /\ cpc'[t] # cpc[t]) => cpc'[t] = "idle"
        /\ (cpc[t] = "idle" /\ cpc'[t] = "idle" /\ <<cret[t], cview[t]>>' # <<cret[t], cview[t]>>)
              => cret'[t] = view_of(cell) /\ cview'[t] = cell

\* C17 (progress): once the cell is filled, a thread inside get comes out of it with
\* the value.
C17_GetReturns ==
    \A t \in Threads :
        (cpc[t] \in {"get", "get_wait"} /\ cell # Empty)
            ~> (cpc[t] = "idle" /\ cret[t] = "Some" /\ cview[t] = cell)

\* C17: get waits for the value and gets it; try_get gives up with the empty view.
C17_GetAwaitsValue ==
    /\ [](C17_NoWaiterOnFilled)
    /\ [][C17_ViewStep]_compVars
    /\ C17_GetReturns

\* C17's case: a complete has returned true on a cell two threads were parked on in
\* get; one of them has come out with the value, the other has been woken.
C17_Witness ==
    \E t, u, v \in Threads :
        /\ born = "default" /\ cpc[t] = "idle" /\ cret[t] = "true"
        /\ cpc[u] = "idle" /\ cret[u] = "Some" /\ cview[u] = cell /\ cdur[u] = NoDur
        /\ cpc[v] = "get" /\ u # v

\* C18 (state): at most one producer has been invoked, none on a cell constructed
\* filled, and the cell has been filled at most once by complete and
\* complete_exclusive together.
C18_OneProducer ==
    /\ Cardinality(invokedBy) <= 1
    /\ wins + Cardinality(invokedBy) <= 1
    /\ born = "new" => invokedBy = {}
    /\ invokedBy # {} => cell # Empty

\* C18 (step): the step of complete_exclusive that finds the cell empty invokes the
\* producer and stores its result; the one that finds it filled invokes nothing, and no
\* other step invokes a producer.
C18_ExclusiveStep ==
    /\ \A t \in Threads :
          (cpc[t] = "complete_exclusive" /\ cpc'[t] # cpc[t])
              => IF cell = Empty
                 THEN invokedBy' = invokedBy \cup {t} /\ t \notin invokedBy /\ cell' = carg[t]
                 ELSE invokedBy' = invokedBy /\ cell' = cell
    /\ invokedBy' # invokedBy
          => \E t \in Threads : cpc[t] = "complete_exclusive" /\ cpc'[t] = "idle"

\* C18: across all threads at most one producer is invoked, and only on an empty cell;
\* the empty-check and the fill are one step.
C18_ProducerOnce == [](C18_OneProducer) /\ [][C18_ExclusiveStep]_compVars

\* C18's case: two threads have been through complete_exclusive; one's producer was
\* invoked, the other's was not, and a third thread's complete has returned false.
C18_Witness ==
    \E t, u, v \in Threads :
        /\ invokedBy = {t} /\ cret[t] = "unit"
        /\ u # t /\ cret[u] = "unit" /\ cpc[u] = "idle"
        /\ cret[v] = "false"

------------------------------------------------------------------------------
\* XLock under the WriteBiased moderator (specification, 4.2.2): the read-biased
\* counters and operations, but for try_read, the writers_waiting count kept by
\* try_write, and write_unlock, which notifies all.

\* Mutant: the read-biased test: a reader waits for an active writer only.
WriteBiased_try_read_blocked_by_active(w, ww) == w

\* "try_read additionally blocks while any writer is either active OR waiting."
WriteBiased_try_read_blocked(w, ww) == w \/ ww > 0

\* WriteBiased::try_read, one pass of the loop under the mutex.
WriteBiased_try_read(t) ==
    /\ pc[t] = "try_read"
    /\ IF WriteBiased_try_read_blocked(writer, writers_waiting)
       THEN /\ IF cond_wait_remedy(dur[t]) = "timed_out"
               THEN /\ pc' = [pc EXCEPT ![t] = "idle"]
                    /\ ret' = [ret EXCEPT ![t] = "None"]
                    /\ dur' = [dur EXCEPT ![t] = NoDur]
               ELSE /\ pc' = [pc EXCEPT ![t] = "rd_wait"]
                    /\ UNCHANGED <<ret, dur>>
            /\ UNCHANGED <<readers, rguard, view>>
       ELSE /\ readers' = readers + 1
            /\ pc' = [pc EXCEPT ![t] = "R"]
            /\ rguard' = [rguard EXCEPT ![t] = "locked"]
            /\ ret' = [ret EXCEPT ![t] = "Some"]
            /\ dur' = [dur EXCEPT ![t] = NoDur]
            /\ view' = [view EXCEPT ![t] = data]
    /\ UNCHANGED <<writer, data, wguard, snap, passed, assertFailed, writers_waiting>>
    /\ UNCHANGED notWriteBiased

\* writers_waiting is "decremented on exit/timeout".
writers_waiting_on_exit(ww) == ww - 1

\* The loop of WriteBiased::try_write for a thread counted in ww waiters: "try_write
\* still waits for !writer && readers == 0".
WriteBiased_try_write_pass(t, d, ww) ==
    /\ IF try_write_blocked
       THEN /\ IF cond_wait_remedy(d) = "timed_out"
               THEN /\ pc' = [pc EXCEPT ![t] = "idle"]
                    /\ ret' = [ret EXCEPT ![t] = "None"]
                    /\ dur' = [dur EXCEPT ![t] = NoDur]
                    /\ writers_waiting' = writers_waiting_on_exit(ww)
               ELSE /\ pc' = [pc EXCEPT ![t] = "wr_wait"]
                    /\ ret' = [ret EXCEPT ![t] = "none"]
                    /\ dur' = [dur EXCEPT ![t] = d]
                    /\ writers_waiting' = ww
            /\ UNCHANGED <<writer, wguard, view>>
       ELSE /\ writer' = TRUE
            /\ writers_waiting' = ww - 1
            /\ pc' = [pc EXCEPT ![t] = "W"]
            /\ wguard' = [wguard EXCEPT ![t] = "locked"]
            /\ ret' = [ret EXCEPT ![t] = "Some"]
            /\ dur' = [dur EXCEPT ![t] = NoDur]
            /\ view' = [view EXCEPT ![t] = data]
    /\ UNCHANGED <<readers, data, rguard, snap, passed, assertFailed>>
    /\ UNCHANGED notWriteBiased

\* XLock::try_write into WriteBiased::try_write: writers_waiting is "incremented on
\* entry", and the first pass of the loop follows under the same hold of the mutex.
WriteBiased_try_write(t, d) ==
    /\ pc[t] = "idle"
    /\ WriteBiased_try_write_pass(t, d, writers_waiting + 1)

\* A woken writer's pass of the loop.
WriteBiased_try_write_woken(t) ==
    /\ pc[t] = "try_write"
    /\ WriteBiased_try_write_pass(t, dur[t], writers_waiting)

\* The timed wait of try_write ran out: the writer leaves and is no longer counted.
WriteBiased_try_write_timeout(t) ==
    /\ pc[t] = "wr_wait"
    /\ dur[t] = TIMED
    /\ pc' = [pc EXCEPT ![t] = "idle"]
    /\ ret' = [ret EXCEPT ![t] = "None"]
    /\ dur' = [dur EXCEPT ![t] = NoDur]
    /\ writers_waiting' = writers_waiting_on_exit(writers_waiting)
    /\ UNCHANGED <<readers, writer, data, rguard, wguard, view, snap, passed, assertFailed>>
    /\ UNCHANGED notWriteBiased

\* "write_unlock notifies all."
WriteBiased_write_unlock_notify(t) ==
    /\ pc[t] = "wu_notify"
    /\ pc' = notify_all([pc EXCEPT ![t] = "idle"])
    /\ UNCHANGED <<readers, writer, data, dur, rguard, wguard, ret, view, snap, passed, assertFailed>>
    /\ UNCHANGED <<writers_waiting>>
    /\ UNCHANGED notWriteBiased

\* read, try_read(0), write, the timed try_write and the drops under WriteBiased.
WriteBiasedNext ==
    \E t \in Threads :
        \/ XLock_read(t)
        \/ XLock_try_read(t, ZERO)
        \/ WriteBiased_try_read(t)
        \/ drop_read(t)
        \/ read_unlock_notify(t)
        \/ WriteBiased_try_write(t, MAX)
        \/ WriteBiased_try_write(t, TIMED)
        \/ WriteBiased_try_write_woken(t)
        \/ WriteBiased_try_write_timeout(t)
        \/ drop_write(t)
        \/ WriteBiased_write_unlock_notify(t)
        \/ spurious_wakeup(t)

WriteBiasedSpec == Init /\ [][WriteBiasedNext]_<<vars, writers_waiting>>

\* The threads inside try_write under WriteBiased that have not been answered.
WritersWaiting == {t \in Threads : pc[t] \in {"try_write", "wr_wait"}}

\* C19 (state): writers_waiting counts the threads waiting in try_write, so a writer
\* that has timed out is no longer counted.
C19_Counted == writers_waiting = Cardinality(WritersWaiting)

\* C19 (step): a reader is granted its guard iff no writer is active and none is
\* waiting; try_read(0) that meets a writer, active or waiting, returns None; a
\* try_write that gives up takes its count out of writers_waiting.
C19_YieldStep ==
    \A t \in Threads :
        /\ (pc[t] = "try_read" /\ pc'[t] # pc[t])
              => IF ~writer /\ WritersWaiting = {}
                 THEN pc'[t] = "R" /\ ret'[t] = "Some" /\ readers' = readers + 1
                 ELSE /\ readers' = readers
                      /\ dur[t] = ZERO => pc'[t] = "idle" /\ ret'[t] = "None"
                      /\ dur[t] # ZERO => pc'[t] = "rd_wait"
        /\ (pc[t] \in {"try_write", "wr_wait"} /\ pc'[t] = "idle")
              => ret'[t] = "None" /\ writers_waiting' = writers_waiting - 1

\* C19: under WriteBiased a reader does not overtake a writer that is active or
\* waiting, and a writer that timed out no longer holds readers back.
C19_WriteBiased == [](C19_Counted) /\ [][C19_YieldStep]_<<vars, writers_waiting>>

\* C19's case: a read guard is held, a write() is parked behind it, and a third
\* thread's call has come back None.
C19_Witness ==
    \E a, b, c \in Threads :
        /\ pc[a] = "R" /\ readers = 1
        /\ pc[b] = "wr_wait" /\ dur[b] = MAX /\ writers_waiting = 1
        /\ pc[c] = "idle" /\ ret[c] = "None"

------------------------------------------------------------------------------
\* XLock under the ArrivalOrdered moderator (specification, 4.2.3): the counters
\* and a FIFO queue of waiter tickets tagged Reader or Writer.

Reader == "Reader"
Writer == "Writer"

\* The ticket of thread t waiting as kind k.
Ticket(t, k) == <<t, k>>

\* The queue without the ticket of thread t.
RemoveTicket(q, t) == SelectSeq(q, LAMBDA e : e[1] # t)

\* "readers admitted in a contiguous run until a writer ticket is at the head;
\* writers admitted only when lock is idle".
ArrivalOrdered_state_admits(k, w, r) ==
    IF k = Reader THEN ~w ELSE ~w /\ r = 0

\* Mutant: a waiter is admitted as soon as the state admits it, wherever its ticket is.
ArrivalOrdered_admits_anywhere(q, t, k, w, r) ==
    ArrivalOrdered_state_admits(k, w, r)

\* A waiter "blocks until the ticket reaches the head AND the current state admits it".
ArrivalOrdered_admits(q, t, k, w, r) ==
    /\ q # <<>>
    /\ Head(q) = Ticket(t, k)
    /\ ArrivalOrdered_state_admits(k, w, r)

\* Taking the head ticket out "could unblock a subsequent waiter".
ArrivalOrdered_could_unblock(q, t) ==
    /\ q # <<>>
    /\ Head(q)[1] = t
    /\ Tail(q) # <<>>

\* One pass of the wait loop of try_read (k = Reader) or try_write (k = Writer) for
\* the ticket of t in q: the waiter is admitted and the next ticket's owner is woken
\* to look at the state, or its time is up and it removes its ticket, or it parks.
ArrivalOrdered_pass(t, k, d, q) ==
    /\ IF ArrivalOrdered_admits(q, t, k, writer, readers)
       THEN /\ queue' = RemoveTicket(q, t)
            /\ IF k = Reader
               THEN /\ readers' = readers + 1
                    /\ rguard' = [rguard EXCEPT ![t] = "locked"]
                    /\ pc' = notify_all([pc EXCEPT ![t] = "R"])
                    /\ UNCHANGED <<writer, wguard>>
               ELSE /\ writer' = TRUE
                    /\ wguard' = [wguard EXCEPT ![t] = "locked"]
                    /\ pc' = notify_all([pc EXCEPT ![t] = "W"])
                    /\ UNCHANGED <<readers, rguard>>
            /\ ret' = [ret EXCEPT ![t] = "Some"]
            /\ dur' = [dur EXCEPT ![t] = NoDur]
            /\ view' = [view EXCEPT ![t] = data]
       ELSE /\ IF cond_wait_remedy(d) = "timed_out"
               THEN /\ queue' = RemoveTicket(q, t)
                    /\ pc' = IF ArrivalOrdered_could_unblock(q, t)
                             THEN notify_all([pc EXCEPT ![t] = "idle"])
                             ELSE [pc EXCEPT ![t] = "idle"]
                    /\ ret' = [ret EXCEPT ![t] = "None"]
                    /\ dur' = [dur EXCEPT ![t] = NoDur]
               ELSE /\ queue' = q
                    /\ pc' = [pc EXCEPT ![t] = IF k = Reader THEN "rd_wait" ELSE "wr_wait"]
                    /\ ret' = [ret EXCEPT ![t] = "none"]
                    /\ dur' = [dur EXCEPT ![t] = d]
            /\ UNCHANGED <<readers, writer, rguard, wguard, view>>
    /\ UNCHANGED <<data, snap, passed, assertFailed>>
    /\ UNCHANGED notArrivalOrdered

\* XLock::try_read into ArrivalOrdered::try_read: "a waiter enqueues a ticket", and
\* the first pass of the loop follows under the same hold of the mutex.
ArrivalOrdered_try_read(t, d) ==
    /\ pc[t] = "idle"
    /\ ArrivalOrdered_pass(t, Reader, d, Append(queue, Ticket(t, Reader)))

\* XLock::try_write into ArrivalOrdered::try_write.
ArrivalOrdered_try_write(t, d) ==
    /\ pc[t] = "idle"
    /\ ArrivalOrdered_pass(t, Writer, d, Append(queue, Ticket(t, Writer)))

\* A woken reader's pass of the loop.
ArrivalOrdered_try_read_woken(t) ==
    /\ pc[t] = "try_read"
    /\ ArrivalOrdered_pass(t, Reader, dur[t], queue)

\* A woken writer's pass of the loop.
ArrivalOrdered_try_write_woken(t) ==
    /\ pc[t] = "try_write"
    /\ ArrivalOrdered_pass(t, Writer, dur[t], queue)

\* The timed wait ran out: "Timed-out waiters remove their ticket from the queue and,
\* if their removal could unblock a subsequent waiter, notify all."
ArrivalOrdered_timeout(t) ==
    /\ pc[t] \in {"rd_wait", "wr_wait"}
    /\ dur[t] = TIMED
    /\ queue' = RemoveTicket(queue, t)
    /\ pc' = IF ArrivalOrdered_could_unblock(queue, t)
             THEN notify_all([pc EXCEPT ![t] = "idle"])
             ELSE [pc EXCEPT ![t] = "idle"]
    /\ ret' = [ret EXCEPT ![t] = "None"]
    /\ dur' = [dur EXCEPT ![t] = NoDur]
    /\ UNCHANGED <<readers, writer, data, rguard, wguard, view, snap, passed, assertFailed>>
    /\ UNCHANGED notArrivalOrdered

\* read_unlock and write_unlock after drop(state): the waiter whose ticket is at the
\* head has to look at the state again, so all are notified.
ArrivalOrdered_unlock_notify(t) ==
    /\ pc[t] \in {"ru_notify", "wu_notify"}
    /\ pc' = notify_all([pc EXCEPT ![t] = "idle"])
    /\ snap' = [snap EXCEPT ![t] = 0]
    /\ UNCHANGED <<readers, writer, data, dur, rguard, wguard, ret, view, passed, assertFailed>>
    /\ UNCHANGED <<queue>>
    /\ UNCHANGED notArrivalOrdered

\* What a thread does by itself under ArrivalOrdered once it is inside a call or
\* holds a guard: a woken waiter takes the mutex, a guard is dropped, an unlock
\* notifies.
ArrivalOrdered_Progress(t) ==
    \/ ArrivalOrdered_try_read_woken(t)
    \/ ArrivalOrdered_try_write_woken(t)
    \/ drop_read(t)
    \/ drop_write(t)
    \/ ArrivalOrdered_unlock_notify(t)

\* read, write, the timed and the zero-duration acquisitions and the drops under
\* ArrivalOrdered.
ArrivalOrderedNext ==
    \E t \in Threads :
        \/ \E d \in Durations : ArrivalOrdered_try_read(t, d)
        \/ \E d \in Durations : ArrivalOrdered_try_write(t, d)
        \/ ArrivalOrdered_try_read_woken(t)
        \/ ArrivalOrdered_try_write_woken(t)
        \/ ArrivalOrdered_timeout(t)
        \/ drop_read(t)
        \/ drop_write(t)
        \/ ArrivalOrdered_unlock_notify(t)
        \/ spurious_wakeup(t)

\* Every guard is eventually dropped and every woken waiter eventually runs.
ArrivalOrderedSpec ==
    /\ Init
    /\ [][ArrivalOrderedNext]_<<vars, queue>>
    /\ \A t \in Threads : WF_<<vars, queue>>(ArrivalOrdered_Progress(t))

\* The threads blocked in try_read and in try_write, parked or woken.
ReadWaiters == {t \in Threads : pc[t] \in {"rd_wait", "try_read"}}
WriteWaiters == {t \in Threads : pc[t] \in {"wr_wait", "try_write"}}

\* The position of the ticket of t in q, 0 when it has none.
TicketPos(q, t) ==
    IF \E i \in 1..Len(q) : q[i][1] = t
    THEN CHOOSE i \in 1..Len(q) : q[i][1] = t
    ELSE 0

\* C20 (state): the queue holds one ticket for each blocked waiter, tagged with its
\* kind, and no other: a waiter that timed out or was admitted has none.
C20_Tickets ==
    /\ Len(queue) = Cardinality(ReadWaiters \cup WriteWaiters)
    /\ \A t \in ReadWaiters : \E i \in 1..Len(queue) : queue[i] = Ticket(t, Reader)
    /\ \A t \in WriteWaiters : \E i \in 1..Len(queue) : queue[i] = Ticket(t, Writer)

\* C20 (step): a thread is granted a guard only when no ticket is ahead of its own,
\* a writer only on an idle lock, a reader whenever no writer is active; a waiter
\* that blocks joins the tail; a ticket leaves the queue only when its owner is
\* granted or gives up, and the tickets that stay keep their order.
C20_OrderStep ==
    \A t \in Threads :
        /\ (pc[t] \notin {"R", "W"} /\ pc'[t] \in {"R", "W"})
              => /\ TicketPos(queue, t) \in {0, 1}
                 /\ TicketPos(queue, t) = 0 => queue = <<>>
                 /\ queue' = RemoveTicket(queue, t)
                 /\ ~writer
                 /\ pc'[t] = "W" => readers = 0
        /\ (pc[t] = "idle" /\ pc'[t] \in {"rd_wait", "wr_wait"})
              => queue' = Append(queue, Ticket(t, IF pc'[t] = "rd_wait" THEN Reader ELSE Writer))
        /\ (t \in ReadWaiters \cup WriteWaiters /\ pc'[t] = "idle")
              => ret'[t] = "None" /\ queue' = RemoveTicket(queue, t)
        /\ (TicketPos(queue, t) # 0 /\ TicketPos(queue', t) # 0)
              => \A u \in Threads :
                    (TicketPos(queue, u) # 0 /\ TicketPos(queue', u) # 0)
                       => (TicketPos(queue, t) < TicketPos(queue, u)
                              <=> TicketPos(queue', t) < TicketPos(queue', u))
        /\ (pc[t] = "try_read" /\ pc'[t] # pc[t] /\ TicketPos(queue, t) = 1 /\ ~writer)
              => pc'[t] = "R" /\ readers' = readers + 1

\* C20 (progress): a waiter of read() or write() is granted its guard.
C20_NoStarvation ==
    \A t \in Threads :
        (t \in ReadWaiters \cup WriteWaiters /\ dur[t] = MAX) ~> pc[t] \in {"R", "W"}

\* C20: under ArrivalOrdered waiters are granted in the order of their tickets, with
\* consecutive reader tickets admitted together, a timed-out waiter's ticket is
\* removed, and no untimed waiter starves while guards are dropped.
C20_ArrivalOrdered ==
    /\ [](C20_Tickets)
    /\ [][C20_OrderStep]_<<vars, queue>>
    /\ C20_NoStarvation

\* C20's case: two readers that waited behind a writer hold their guards together
\* while the ticket of a write() that arrived after them is at the head.
C20_Witness ==
    \E a, b, c \in Threads :
        /\ a # b
        /\ pc[a] = "R" /\ pc[b] = "R" /\ readers = 2
        /\ pc[c] = "wr_wait" /\ dur[c] = MAX
        /\ queue = <<Ticket(c, Writer)>>

------------------------------------------------------------------------------
\* A notify_all that has been decided under the mutex and not yet issued.
NotifyAllPending ==
    \E v \in Threads :
        \/ pc[v] = "ru_notify" /\ read_unlock_wake(snap[v]) = "all"
        \/ pc[v] = "dg_notify"

\* C21 (state): an upgrader is parked beside a sole reader count only while the
\* notify_all of the read_unlock that brought readers to 1 is still to come.
C21_WakeupPending ==
    \A u \in Threads :
        (pc[u] = "up_wait" /\ readers = 1 /\ ~writer) => NotifyAllPending

\* C21 (progress): a thread inside the untimed upgrade() that has become the only
\* reader holds the write guard eventually, unless a further reader is admitted.
C21_UpgraderWakes ==
    \A u \in Threads :
        (PendingUpgrade(u) /\ dur[u] = MAX /\ readers = 1)
            ~> (pc[u] = "W" \/ readers > 1)

\* C21: under ReadBiased no wakeup of an upgrader is lost, also beside parked
\* writers and timed upgraders.
C21_NoLostWakeup == [](C21_WakeupPending) /\ C21_UpgraderWakes

\* C21's case: the untimed upgrade() is parked on the condition variable together
\* with a timed try_upgrade and a write().
C21_Witness ==
    \E u, t, w \in Threads :
        /\ pc[u] = "up_wait" /\ dur[u] = MAX
        /\ pc[t] = "up_wait" /\ dur[t] = TIMED
        /\ pc[w] = "wr_wait" /\ dur[w] = MAX
        /\ readers = 2

------------------------------------------------------------------------------
\* A read guard that came out of a downgrade is held, or about to be built.
DowngradedHeld ==
    \E w \in Threads :
        \/ pc[w] \in {"dg_notify", "dg_drop"}
        \/ pc[w] = "R" /\ ret[w] = "Downgraded"

\* C22 (step): while the downgraded guard is held a thread leaves try_read with its
\* read guard, or because its timed wait ran out; while any read guard is held no
\* thread leaves try_write with a write guard.
C22_DowngradedStep ==
    \A t \in Threads :
        /\ (DowngradedHeld /\ pc[t] \in {"rd_wait", "try_read"}
                /\ pc'[t] \notin {"rd_wait", "try_read"})
              => \/ pc'[t] = "R" /\ rguard'[t] = "locked"
                 \/ pc[t] = "rd_wait" /\ dur[t] = TIMED /\ ret'[t] = "None"
        /\ (readers > 0 /\ pc[t] \in {"wr_wait", "try_write"})
              => pc'[t] # "W"

\* C22 (progress): a thread parked in read() when the writer downgrades acquires
\* its read guard without the downgraded guard being dropped.
C22_ReadersAdmitted ==
    \A t \in Threads :
        (pc[t] = "rd_wait" /\ dur[t] = MAX /\ \E w \in Threads : pc[w] = "dg_notify")
            ~> (pc[t] = "R" \/ ~DowngradedHeld)

\* C22: after a downgrade the readers that waited for the writer are admitted
\* beside the downgraded guard and the writers keep waiting for the readers.
C22_DowngradeAdmitsReaders == [][C22_DowngradedStep]_vars /\ C22_ReadersAdmitted

\* C22's case: a reader that waited for the writer holds its guard beside the
\* downgraded guard while a write() is parked.
C22_Witness ==
    \E w, t, u \in Threads :
        /\ pc[w] = "R" /\ ret[w] = "Downgraded"
        /\ pc[t] = "R" /\ ret[t] = "Some" /\ readers = 2
        /\ pc[u] = "wr_wait" /\ dur[u] = MAX

------------------------------------------------------------------------------
\* C23: under ReadBiased every thread parked in the untimed read() acquires its
\* read guard once the writer is gone, whatever the other readers do: it does not
\* stay parked while writer == false persists.
C23_ParkedReadersAdmitted ==
    \A t \in Threads :
        (pc[t] = "rd_wait" /\ dur[t] = MAX /\ ~writer) ~> (pc[t] = "R" \/ writer)

\* C23's case: the write guard has been dropped and its notify_one has woken one of
\* two parked readers; that one holds its guard, the other is still parked in
\* read() with writer == false, and no notification is on its way.
C23_Witness ==
    \E a, b, w \in Threads :
        /\ pc[a] = "R" /\ ret[a] = "Some" /\ readers = 1 /\ ~writer
        /\ pc[b] = "rd_wait" /\ dur[b] = MAX
        /\ pc[w] = "idle"

------------------------------------------------------------------------------
\* XLock::downgrade(&self) called on the lock itself by a thread that holds no
\* guard: S::downgrade up to drop(state).  The notification and the read guard
\* it returns follow as for LockWriteGuard::downgrade.
XLock_downgrade(t) ==
    /\ pc[t] = "idle"
    /\ downgrade_state
    /\ pc' = [pc EXCEPT ![t] = "dg_notify"]
    /\ UNCHANGED <<data, dur, rguard, wguard, ret, view, snap, passed>>
    /\ UNCHANGED notXLock

\* The public operations of XLock and its guards, XLock::downgrade among them.
PublicNext ==
    \E t \in Threads :
        \/ XLock_read(t)
        \/ try_read(t)
        \/ drop_read(t)
        \/ read_unlock_notify(t)
        \/ XLock_write(t)
        \/ try_write(t)
        \/ drop_write(t)
        \/ write_unlock_notify(t)
        \/ downgrade(t)
        \/ XLock_downgrade(t)
        \/ downgrade_notify(t)
        \/ drop_consumed_write(t)
        \/ LockReadGuard_upgrade(t)
        \/ try_upgrade(t)
        \/ drop_consumed_read(t)
        \/ spurious_wakeup(t)

PublicSpec == Init /\ [][PublicNext]_vars

\* C24: every debug_assert! of the ReadBiased moderator holds at each call and
\* readers never underflows, over the public operations of XLock and its guards.
C24_PreconditionsHold == ~assertFailed /\ readers >= 0

\* C24's case: XLock::downgrade(&self) has been called on a lock that a reader
\* holds, and has returned a second read guard with readers == 1.
C24_Witness ==
    \E t, u \in Threads :
        /\ t # u
        /\ pc[t] = "R" /\ ret[t] = "Downgraded"
        /\ pc[u] = "R" /\ ret[u] = "Some"
        /\ readers = 1 /\ assertFailed

------------------------------------------------------------------------------
\* SpinLock::unlock(&self) called on the lock itself, by a thread that is not
\* inside lock() or try_lock(), whether or not it owns the guard.
SpinLock_unlock(t) ==
    /\ spc[t] \in {"idle", "held"}
    /\ unlock
    /\ UNCHANGED <<spc, sret>>
    /\ UNCHANGED notSpinLock

\* The public operations of SpinLock, unlock among them.
SpinPublicNext ==
    \E t \in Threads :
        \/ SpinLock_try_lock(t)
        \/ SpinLock_lock(t)
        \/ try_lock(t)
        \/ SpinGuard_drop(t)
        \/ SpinLock_unlock(t)

SpinPublicSpec == Init /\ [][SpinPublicNext]_spinVars

\* C25: over new, lock, try_lock, guard drops and unlock the flag is set iff
\* exactly one SpinGuard is live.
C25_FlagIffOneGuard == locked <=> Cardinality(SpinHolders) = 1

\* C25's case: a thread that owns no guard has called unlock() while a guard was
\* live, and a second guard has been created beside the first.
C25_Witness ==
    \E t, u \in Threads :
        /\ t # u
        /\ spc[t] = "held" /\ spc[u] = "held"
        /\ locked

------------------------------------------------------------------------------
\* The UrwLock prototype (src/urw_lock.rs): a state gate (readers, writer behind a
\* mutex, with a condition variable) in front of a std RwLock that holds the data.
\* A guard's drop runs its body (read_unlock, write_unlock) first and releases the
\* inner RwLock guard after it, when the guard's field is dropped.

\* The threads parked on UrwLock.cond.
UrwWaiting == {u \in Threads : upc[u] \in {"rd_wait", "wr_wait"}}

\* A thread that leaves Condvar::wait re-locks the mutex and re-evaluates its loop.
UrwWoken(p) ==
    CASE p = "rd_wait" -> "read"
      [] p = "wr_wait" -> "write"
      [] OTHER -> p

\* self.cond.notify_all() and notify_one().
urw_notify_all(p) == [u \in Threads |-> UrwWoken(p[u])]
urw_notify_one(p, u) == [p EXCEPT ![u] = UrwWoken(p[u])]

\* UrwLock::read is called: `self.state.lock()`.
UrwLock_read(t) ==
    /\ upc[t] = "idle"
    /\ upc' = [upc EXCEPT ![t] = "read"]
    /\ UNCHANGED <<ustate, rwlock, prefers_writers>>
    /\ UNCHANGED notUrwLock

\* UrwLock::read, one pass of `while state.writer` under the mutex, up to drop(state).
UrwLock_read_gate(t) ==
    /\ upc[t] = "read"
    /\ IF ustate.writer
       THEN /\ upc' = [upc EXCEPT ![t] = "rd_wait"]
            /\ UNCHANGED ustate
       ELSE /\ ustate' = [ustate EXCEPT !.readers = @ + 1]
            /\ upc' = [upc EXCEPT ![t] = "rd_inner"]
    /\ UNCHANGED <<rwlock, prefers_writers>>
    /\ UNCHANGED notUrwLock

\* Whether RwLock::read has to wait: for the write guard, and on a platform that
\* prefers writers also for a write() that is waiting.
RwLock_read_blocked ==
    \/ rwlock.writer
    \/ prefers_writers /\ \E u \in Threads : upc[u] = "wr_inner"

\* `self.data.read()` returns and the UrwLockReadGuard is built.
RwLock_read(t) ==
    /\ upc[t] = "rd_inner"
    /\ ~RwLock_read_blocked
    /\ rwlock' = [rwlock EXCEPT !.readers = @ + 1]
    /\ upc' = [upc EXCEPT ![t] = "R"]
    /\ UNCHANGED <<ustate, prefers_writers>>
    /\ UNCHANGED notUrwLock

\* UrwLockReadGuard::drop, its body: read_unlock, which notifies under the mutex.
\* When the assert! fails the call panics and leaves the state as it is.
UrwLockReadGuard_drop(t) ==
    /\ upc[t] = "R"
    /\ LET p == [upc EXCEPT ![t] = "rd_release"]
           n == ustate.readers - 1
       IN  IF ustate.readers > 0
           THEN /\ ustate' = [ustate EXCEPT !.readers = n]
                /\ IF n = 1
                   THEN upc' = urw_notify_all(p)
                   ELSE IF n = 0 /\ UrwWaiting # {}
                        THEN \E u \in UrwWaiting : upc' = urw_notify_one(p, u)
                        ELSE upc' = p
           ELSE /\ upc' = p
                /\ UNCHANGED ustate
    /\ UNCHANGED <<rwlock, prefers_writers>>
    /\ UNCHANGED notUrwLock

\* The guard's field `data: RwLockReadGuard` is dropped after the body of drop.
RwLockReadGuard_drop(t) ==
    /\ upc[t] = "rd_release"
    /\ rwlock' = [rwlock EXCEPT !.readers = @ - 1]
    /\ upc' = [upc EXCEPT ![t] = "idle"]
    /\ UNCHANGED <<ustate, prefers_writers>>
    /\ UNCHANGED notUrwLock

\* UrwLock::write is called: `self.state.lock()`.
UrwLock_write(t) ==
    /\ upc[t] = "idle"
    /\ upc' = [upc EXCEPT ![t] = "write"]
    /\ UNCHANGED <<ustate, rwlock, prefers_writers>>
    /\ UNCHANGED notUrwLock

\* Mutant: the gate lets a writer in beside readers.
UrwLock_write_blocked_by_writer(st) == st.writer

\* `while state.readers != 0 || state.writer`
UrwLock_write_blocked(st) == st.readers # 0 \/ st.writer

\* UrwLock::write, one pass of the loop under the mutex, up to drop(state).
UrwLock_write_gate(t) ==
    /\ upc[t] = "write"
    /\ IF UrwLock_write_blocked(ustate)
       THEN /\ upc' = [upc EXCEPT ![t] = "wr_wait"]
            /\ UNCHANGED ustate
       ELSE /\ ustate' = [ustate EXCEPT !.writer = TRUE]
            /\ upc' = [upc EXCEPT ![t] = "wr_inner"]
    /\ UNCHANGED <<rwlock, prefers_writers>>
    /\ UNCHANGED notUrwLock

\* `self.data.write()` returns and the UrwLockWriteGuard is built.
RwLock_write(t) ==
    /\ upc[t] = "wr_inner"
    /\ rwlock.readers = 0 /\ ~rwlock.writer
    /\ rwlock' = [rwlock EXCEPT !.writer = TRUE]
    /\ upc' = [upc EXCEPT ![t] = "W"]
    /\ UNCHANGED <<ustate, prefers_writers>>
    /\ UNCHANGED notUrwLock

\* UrwLockWriteGuard::drop: `if let Some(_) = self.data.take() { write_unlock() }`;
\* the RwLockWriteGuard taken out lives to the end of the `if let`.
UrwLockWriteGuard_drop(t) ==
    /\ upc[t] = "W"
    /\ ustate' = [ustate EXCEPT !.writer = FALSE]
    /\ LET p == [upc EXCEPT ![t] = "wr_release"]
       IN  IF UrwWaiting # {}
           THEN \E u \in UrwWaiting : upc' = urw_notify_one(p, u)
           ELSE upc' = p
    /\ UNCHANGED <<rwlock, prefers_writers>>
    /\ UNCHANGED notUrwLock

\* The RwLockWriteGuard taken out of the guard is dropped.
RwLockWriteGuard_drop(t) ==
    /\ upc[t] = "wr_release"
    /\ rwlock' = [rwlock EXCEPT !.writer = FALSE]
    /\ upc' = [upc EXCEPT ![t] = "idle"]
    /\ UNCHANGED <<ustate, prefers_writers>>
    /\ UNCHANGED notUrwLock

\* UrwLockWriteGuard::downgrade: `self.data.take();` releases the RwLock's write
\* guard at once, before self.lock.downgrade() is entered.
UrwLockWriteGuard_downgrade(t) ==
    /\ upc[t] = "W"
    /\ rwlock' = [rwlock EXCEPT !.writer = FALSE]
    /\ upc' = [upc EXCEPT ![t] = "dg_state"]
    /\ UNCHANGED <<ustate, prefers_writers>>
    /\ UNCHANGED notUrwLock

\* UrwLock::downgrade under the mutex: readers = 1, writer = false, notify_all; the
\* thread goes on to `self.data.read()`.
UrwLock_downgrade(t) ==
    /\ upc[t] = "dg_state"
    /\ ustate' = [readers |-> 1, writer |-> FALSE]
    /\ upc' = urw_notify_all([upc EXCEPT ![t] = "rd_inner"])
    /\ UNCHANGED <<rwlock, prefers_writers>>
    /\ UNCHANGED notUrwLock

\* Condvar::wait may return without a notification.
urw_spurious_wakeup(t) ==
    /\ upc[t] \in {"rd_wait", "wr_wait"}
    /\ upc' = [upc EXCEPT ![t] = UrwWoken(upc[t])]
    /\ UNCHANGED <<ustate, rwlock, prefers_writers>>
    /\ UNCHANGED notUrwLock

\* What a thread does by itself once it is inside a call: it takes the mutex when
\* it is runnable, it takes the RwLock when that admits it, and a drop or a
\* downgrade that has begun runs to its end.
UrwProgress(t) ==
    \/ UrwLock_read_gate(t)
    \/ RwLock_read(t)
    \/ RwLockReadGuard_drop(t)
    \/ UrwLock_write_gate(t)
    \/ RwLock_write(t)
    \/ RwLockWriteGuard_drop(t)
    \/ UrwLock_downgrade(t)

\* read, write, downgrade and the guards' drops, by any thread at any time.
UrwNext ==
    \E t \in Threads :
        \/ UrwLock_read(t)
        \/ UrwLock_read_gate(t)
        \/ RwLock_read(t)
        \/ UrwLockReadGuard_drop(t)
        \/ RwLockReadGuard_drop(t)
        \/ UrwLock_write(t)
        \/ UrwLock_write_gate(t)
        \/ RwLock_write(t)
        \/ UrwLockWriteGuard_drop(t)
        \/ RwLockWriteGuard_drop(t)
        \/ UrwLockWriteGuard_downgrade(t)
        \/ UrwLock_downgrade(t)
        \/ urw_spurious_wakeup(t)

\* Every object as constructed, the UrwLock over an RwLock of either policy.
UrwInit ==
    /\ XLock_Init /\ SpinLock_new /\ Completable_new(Empty)
    /\ \E p \in BOOLEAN : UrwLock_new(p)

\* Threads keep running inside a call; whether and when a live guard is dropped or
\* downgraded is left open.
UrwSpec ==
    /\ UrwInit
    /\ [][UrwNext]_urwVars
    /\ \A t \in Threads : WF_urwVars(UrwProgress(t))

\* The threads that own a UrwLock guard with its RwLock guard in it.
UrwReadGuards == {t \in Threads : upc[t] \in {"R", "rd_release"}}
UrwWriteGuards == {t \in Threads : upc[t] \in {"W", "wr_release"}}

\* C26 (state): readers == 0 or writer == false; at most one write guard is live and
\* none beside a read guard; the RwLock counts exactly the guards that are live.
C26_Exclusive ==
    /\ ustate.readers = 0 \/ ~ustate.writer
    /\ ustate.readers >= 0
    /\ Cardinality(UrwWriteGuards) <= 1
    /\ UrwWriteGuards # {} => UrwReadGuards = {}
    /\ rwlock.readers = Cardinality(UrwReadGuards)
    /\ rwlock.writer <=> UrwWriteGuards # {}

\* C26 (progress): a thread that has passed the state gate obtains its RwLock guard,
\* also when no live guard is ever dropped.
C26_PastGateAcquires ==
    \A t \in Threads :
        /\ upc[t] = "rd_inner" ~> upc[t] = "R"
        /\ upc[t] = "wr_inner" ~> upc[t] = "W"

\* C26: the UrwLock's state stays consistent, its guards exclude each other, and
\* the inner RwLock blocks no thread forever behind the gate.
C26_UrwLock == [](C26_Exclusive) /\ C26_PastGateAcquires

\* C26's case: a dropping read guard has updated the state and still holds its
\* RwLock guard while a writer that has passed the gate waits for the RwLock.
C26_Witness ==
    \E r, w \in Threads :
        /\ upc[r] = "rd_release" /\ rwlock.readers = 1
        /\ upc[w] = "wr_inner" /\ ustate.writer /\ ustate.readers = 0

====
